---- MODULE Spec2Model ----
(***************************************************************************)
(* Model of HttpConverter (src/unnamed/part_005, the converter module):    *)
(* the codec between raw HTTP bytes and Axios request/response objects.    *)
(*                                                                         *)
(* Representation.  A JavaScript string is a sequence of characters; an    *)
(* ArrayBuffer is a sequence of bytes.  An ASCII character and the byte    *)
(* that encodes it are the same one-letter TLA+ string ("G", " ", "\r").   *)
(* A byte above 0x7F is a three-letter name ("xFF", "xC3").  A character   *)
(* above U+007F is named by the concatenation of the names of its UTF-8    *)
(* bytes ("xC3xA9" is U+00E9, "xEFxBFxBD" is U+FFFD), so that encoding and *)
(* decoding are computed, not assumed.                                     *)
(*                                                                         *)
(* A JavaScript value is a record tagged by t: undefined, null, bool, num, *)
(* str, bytes (ArrayBuffer), obj, arr, form (FormData).                    *)
(***************************************************************************)
EXTENDS Integers, Sequences, FiniteSets, TLC

VARIABLES options, pc, op, input, outcome, wire, source, dispatched, calls, warns,
          pending, settled

vars == <<options, pc, op, input, outcome, wire, source, dispatched, calls, warns,
          pending, settled>>

(***************************************************************************)
(* Characters and strings                                                  *)
(***************************************************************************)

\* The characters of a TLA+ string literal, as a sequence.
S(str) == [i \in 1..Len(str) |-> SubSeq(str, i, i)]

CRLF == <<"\r", "\n">>

UpperChars == S("ABCDEFGHIJKLMNOPQRSTUVWXYZ")

LowerChars == S("abcdefghijklmnopqrstuvwxyz")

Digits == S("0123456789")

IsDigit(c) == \E i \in 1..10 : Digits[i] = c

DigitVal(c) == (CHOOSE i \in 1..10 : Digits[i] = c) - 1

\* String.prototype.toLowerCase on one character.
LowerChar(c) ==
    IF \E i \in 1..26 : UpperChars[i] = c
    THEN LowerChars[CHOOSE i \in 1..26 : UpperChars[i] = c]
    ELSE c

\* String.prototype.toUpperCase on one character.
UpperChar(c) ==
    IF \E i \in 1..26 : LowerChars[i] = c
    THEN UpperChars[CHOOSE i \in 1..26 : LowerChars[i] = c]
    ELSE c

ToLowerCase(s) == [i \in 1..Len(s) |-> LowerChar(s[i])]

ToUpperCase(s) == [i \in 1..Len(s) |-> UpperChar(s[i])]

\* White space as String.prototype.trim and the regular expression class \s
\* see it (of the characters the model uses).
IsSpace(c) == c \in {" ", "\t", "\r", "\n"}

\* Line terminators: the characters the regular expression `.` does not match.
IsLineTerminator(c) == c \in {"\r", "\n"}

\* String.prototype.indexOf(pat, from) with 1-based positions; 0 when absent.
IndexOfFrom(s, pat, from) ==
    LET hits == {i \in from..(Len(s) - Len(pat) + 1) : SubSeq(s, i, i + Len(pat) - 1) = pat}
    IN  IF hits = {} THEN 0 ELSE CHOOSE i \in hits : \A j \in hits : i <= j

IndexOf(s, pat) == IndexOfFrom(s, pat, 1)

Includes(s, pat) == IndexOf(s, pat) # 0

StartsWith(s, pat) == Len(s) >= Len(pat) /\ SubSeq(s, 1, Len(pat)) = pat

\* The pieces of s from position `from` on, cut at each occurrence of sep
\* found by scanning left to right.
RECURSIVE SplitFrom(_, _, _)
SplitFrom(s, sep, from) ==
    LET i == IndexOfFrom(s, sep, from)
    IN  IF i = 0 THEN <<SubSeq(s, from, Len(s))>>
        ELSE <<SubSeq(s, from, i - 1)>> \o SplitFrom(s, sep, i + Len(sep))

\* String.prototype.split(sep) for a non-empty separator.
Split(s, sep) == SplitFrom(s, sep, 1)

\* Array.prototype.join(sep).
RECURSIVE Join(_, _)
Join(parts, sep) ==
    IF Len(parts) = 0 THEN <<>>
    ELSE IF Len(parts) = 1 THEN parts[1]
    ELSE parts[1] \o sep \o Join(Tail(parts), sep)

\* String.prototype.trim.
Trim(s) ==
    LET keep == {i \in 1..Len(s) : ~IsSpace(s[i])}
    IN  IF keep = {} THEN <<>>
        ELSE SubSeq(s, CHOOSE i \in keep : \A j \in keep : i <= j,
                       CHOOSE i \in keep : \A j \in keep : i >= j)

\* Concatenation of a sequence of sequences.
RECURSIVE Flatten(_)
Flatten(ss) ==
    IF Len(ss) = 0 THEN <<>>
    ELSE IF Len(ss) = 1 THEN ss[1]
    ELSE LET m == Len(ss) \div 2
         IN  Flatten(SubSeq(ss, 1, m)) \o Flatten(SubSeq(ss, m + 1, Len(ss)))

\* Number.prototype.toString for a natural number.
RECURSIVE NatToString(_)
NatToString(n) ==
    IF n < 10 THEN <<Digits[n + 1]>>
    ELSE NatToString(n \div 10) \o <<Digits[(n % 10) + 1]>>

\* parseInt(s, 10) on a non-empty string of digits.
RECURSIVE ParseDigits(_)
ParseDigits(s) ==
    IF Len(s) = 0 THEN 0
    ELSE 10 * ParseDigits(SubSeq(s, 1, Len(s) - 1)) + DigitVal(s[Len(s)])

(***************************************************************************)
(* UTF-8: TextEncoder.encode and new TextDecoder().decode                  *)
(***************************************************************************)

\* Bytes 0x80..0xBF (continuation bytes) the model uses.
ContBytes == {"xA9", "xBF", "xBD"}

\* Lead bytes of two-byte sequences (0xC2..0xDF) the model uses.
Lead2Bytes == {"xC3"}

\* Lead bytes of three-byte sequences (0xE1..0xEC, 0xEE, 0xEF) the model uses.
Lead3Bytes == {"xEF"}

\* TextEncoder.encode of one character: an ASCII character is one byte, any
\* other character is the bytes its name lists.
EncodeChar(c) ==
    IF Len(c) = 1 THEN <<c>>
    ELSE [i \in 1..(Len(c) \div 3) |-> SubSeq(c, 3 * i - 2, 3 * i)]

\* TextEncoder.encode(s).
TextEncode(s) == Flatten([i \in 1..Len(s) |-> EncodeChar(s[i])])

ReplacementChar == "xEFxBFxBD"

\* Whether the byte at position i belongs to the sequence that an earlier
\* lead byte opens (as its 2nd or 3rd byte).  A lead byte always opens a
\* sequence, so this is decided by the two bytes before i.
IsTrailing(b, i) ==
    /\ b[i] \in ContBytes
    /\ \/ i > 1 /\ b[i - 1] \in Lead2Bytes \cup Lead3Bytes
       \/ i > 2 /\ b[i - 2] \in Lead3Bytes /\ b[i - 1] \in ContBytes

\* The character the UTF-8 decoder emits for the sequence that starts at i:
\* the character itself for a well-formed sequence, U+FFFD for an invalid
\* byte or a truncated sequence.
DecodedCharAt(b, i) ==
    IF Len(b[i]) = 1 THEN b[i]
    ELSE IF b[i] \in Lead2Bytes /\ i + 1 <= Len(b) /\ b[i + 1] \in ContBytes
         THEN b[i] \o b[i + 1]
    ELSE IF /\ b[i] \in Lead3Bytes /\ i + 2 <= Len(b)
            /\ b[i + 1] \in ContBytes /\ b[i + 2] \in ContBytes
         THEN b[i] \o b[i + 1] \o b[i + 2]
    ELSE ReplacementChar

\* new TextDecoder().decode(bytes): the decoder is constructed without
\* {fatal: true}, so a byte sequence that is not valid UTF-8 does not throw;
\* each maximal invalid subpart becomes U+FFFD.
TextDecode(b) ==
    LET IsStart(i) == ~IsTrailing(b, i)
        starts == SelectSeq([i \in 1..Len(b) |-> i], IsStart)
    IN  [k \in 1..Len(starts) |-> DecodedCharAt(b, starts[k])]

\* Whether the byte sequence is well-formed UTF-8 (what a strict decoder accepts).
IsValidUtf8(b) ==
    \A i \in 1..Len(b) :
        \/ IsTrailing(b, i)
        \/ Len(b[i]) = 1
        \/ b[i] \in Lead2Bytes /\ i + 1 <= Len(b) /\ b[i + 1] \in ContBytes
        \/ /\ b[i] \in Lead3Bytes /\ i + 2 <= Len(b)
           /\ b[i + 1] \in ContBytes /\ b[i + 2] \in ContBytes

(***************************************************************************)
(* JavaScript values                                                       *)
(***************************************************************************)

Undefined == [t |-> "undefined"]

Null == [t |-> "null"]

Bool(b) == [t |-> "bool", v |-> b]

Num(n) == [t |-> "num", v |-> n]

Str(s) == [t |-> "str", v |-> s]

\* An ArrayBuffer holding the bytes b.
Bytes(b) == [t |-> "bytes", v |-> b]

\* A plain object: its own properties, in insertion order, as <<key, value>>.
Obj(pairs) == [t |-> "obj", v |-> pairs]

Arr(items) == [t |-> "arr", v |-> items]

\* A FormData: its entries in append order.
Form(entries) == [t |-> "form", v |-> entries]

\* A text entry of a FormData.
Field(name, value) == [name |-> name, file |-> FALSE, value |-> value]

\* A Blob/File entry of a FormData: `filename` is the File's name ("" for a
\* plain Blob, whose name property is undefined), `type` the Blob's type.
File(name, filename, type, data) ==
    [name |-> name, file |-> TRUE, filename |-> filename, type |-> type, data |-> data]

\* JavaScript truthiness (ToBoolean).
Truthy(x) ==
    CASE x.t = "undefined" -> FALSE
      [] x.t = "null" -> FALSE
      [] x.t = "bool" -> x.v
      [] x.t = "num" -> x.v # 0
      [] x.t = "str" -> Len(x.v) > 0
      [] OTHER -> TRUE

\* An own property `key` of a plain object is created or overwritten: an
\* existing key keeps its position.
ObjPut(pairs, key, value) ==
    IF \E i \in 1..Len(pairs) : pairs[i][1] = key
    THEN [i \in 1..Len(pairs) |-> IF pairs[i][1] = key THEN <<key, value>> ELSE pairs[i]]
    ELSE Append(pairs, <<key, value>>)

\* obj[key] = value, with a string value, on an object created by `{}`: the
\* key __proto__ reaches the setter inherited from Object.prototype, which
\* ignores a value that is neither an object nor null, so no entry is made.
SetProperty(pairs, key, value) ==
    IF key = S("__proto__") THEN pairs ELSE ObjPut(pairs, key, value)

\* obj[key] on a plain object whose values are strings; Undefined when absent.
ObjGet(pairs, key) ==
    IF \E i \in 1..Len(pairs) : pairs[i][1] = key
    THEN Str(pairs[CHOOSE i \in 1..Len(pairs) : pairs[i][1] = key][2])
    ELSE Undefined

ObjKeys(pairs) == {pairs[i][1] : i \in 1..Len(pairs)}

(***************************************************************************)
(* JSON.stringify and JSON.parse                                           *)
(***************************************************************************)

\* The JSON text of one character of a string.
JsonQuoteChar(c) ==
    CASE c = "\"" -> S("\\\"")
      [] c = "\\" -> S("\\\\")
      [] c = "\n" -> S("\\n")
      [] c = "\r" -> S("\\r")
      [] c = "\t" -> S("\\t")
      [] OTHER -> <<c>>

JsonQuote(s) == <<"\"">> \o Flatten([i \in 1..Len(s) |-> JsonQuoteChar(s[i])]) \o <<"\"">>

IntToString(n) == IF n < 0 THEN <<"-">> \o NatToString(0 - n) ELSE NatToString(n)

\* JSON.stringify(x) for a value built from null, booleans, integers, strings,
\* arrays and plain objects.
RECURSIVE JsonStringify(_)
JsonStringify(x) ==
    CASE x.t = "null" -> S("null")
      [] x.t = "bool" -> IF x.v THEN S("true") ELSE S("false")
      [] x.t = "num" -> IntToString(x.v)
      [] x.t = "str" -> JsonQuote(x.v)
      [] x.t = "arr" ->
            <<"[">> \o Join([i \in 1..Len(x.v) |-> JsonStringify(x.v[i])], <<",">>) \o <<"]">>
      [] x.t = "obj" ->
            <<"{">> \o Join([i \in 1..Len(x.v) |->
                               JsonQuote(x.v[i][1]) \o <<":">> \o JsonStringify(x.v[i][2])],
                            <<",">>) \o <<"}">>

JsonFail == [ok |-> FALSE]

JsonOk(v, i) == [ok |-> TRUE, v |-> v, i |-> i]

IsJsonSpace(c) == c \in {" ", "\t", "\r", "\n"}

\* The first position at or after i that holds no JSON white space.
RECURSIVE SkipWs(_, _)
SkipWs(s, i) == IF i <= Len(s) /\ IsJsonSpace(s[i]) THEN SkipWs(s, i + 1) ELSE i

\* The end of the run of digits that starts at i (i itself when there is none).
RECURSIVE DigitsEnd(_, _)
DigitsEnd(s, i) == IF i <= Len(s) /\ IsDigit(s[i]) THEN DigitsEnd(s, i + 1) ELSE i

\* A JSON string whose opening quote is at i - 1: the characters read so far
\* are acc.  Escapes \" \\ \/ \n \r \t are read; a raw control character is
\* an error.  (\b, \f and \uXXXX do not occur in the model's texts.)
RECURSIVE ParseJsonString(_, _, _)
ParseJsonString(s, i, acc) ==
    IF i > Len(s) THEN JsonFail
    ELSE IF s[i] = "\"" THEN JsonOk(acc, i + 1)
    ELSE IF s[i] \in {"\r", "\n", "\t"} THEN JsonFail
    ELSE IF s[i] = "\\"
         THEN IF i + 1 > Len(s) THEN JsonFail
              ELSE CASE s[i + 1] = "\"" -> ParseJsonString(s, i + 2, Append(acc, "\""))
                     [] s[i + 1] = "\\" -> ParseJsonString(s, i + 2, Append(acc, "\\"))
                     [] s[i + 1] = "/" -> ParseJsonString(s, i + 2, Append(acc, "/"))
                     [] s[i + 1] = "n" -> ParseJsonString(s, i + 2, Append(acc, "\n"))
                     [] s[i + 1] = "r" -> ParseJsonString(s, i + 2, Append(acc, "\r"))
                     [] s[i + 1] = "t" -> ParseJsonString(s, i + 2, Append(acc, "\t"))
                     [] OTHER -> JsonFail
    ELSE ParseJsonString(s, i + 1, Append(acc, s[i]))

\* A JSON number at i: an optional minus sign and an integer without leading
\* zeros.  (Fractions and exponents do not occur in the model's texts.)
ParseJsonNumber(s, i) ==
    LET neg == s[i] = "-"
        j == IF neg THEN i + 1 ELSE i
        e == DigitsEnd(s, j)
    IN  IF e = j THEN JsonFail
        ELSE IF s[j] = "0" /\ e > j + 1 THEN JsonOk(Num(0), j + 1)
        ELSE JsonOk(Num(IF neg THEN 0 - ParseDigits(SubSeq(s, j, e - 1))
                               ELSE ParseDigits(SubSeq(s, j, e - 1))), e)

RECURSIVE ParseJsonValue(_, _)
RECURSIVE ParseJsonElements(_, _, _)
RECURSIVE ParseJsonMembers(_, _, _)

\* The elements of an array after `[` or `,` (position i), acc read so far.
ParseJsonElements(s, i, acc) ==
    LET r == ParseJsonValue(s, i)
    IN  IF ~r.ok THEN JsonFail
        ELSE LET j == SkipWs(s, r.i)
             IN  IF j > Len(s) THEN JsonFail
                 ELSE IF s[j] = "," THEN ParseJsonElements(s, j + 1, Append(acc, r.v))
                 ELSE IF s[j] = "]" THEN JsonOk(Arr(Append(acc, r.v)), j + 1)
                 ELSE JsonFail

\* The members of an object after `{` or `,` (position i), acc read so far.
\* A repeated key takes the last value.
ParseJsonMembers(s, i, acc) ==
    LET j == SkipWs(s, i)
    IN  IF j > Len(s) \/ s[j] # "\"" THEN JsonFail
        ELSE LET k == ParseJsonString(s, j + 1, <<>>)
             IN  IF ~k.ok THEN JsonFail
                 ELSE LET c == SkipWs(s, k.i)
                      IN  IF c > Len(s) \/ s[c] # ":" THEN JsonFail
                          ELSE LET r == ParseJsonValue(s, c + 1)
                               IN  IF ~r.ok THEN JsonFail
                                   ELSE LET e == SkipWs(s, r.i)
                                            acc2 == ObjPut(acc, k.v, r.v)
                                        IN  IF e > Len(s) THEN JsonFail
                                            ELSE IF s[e] = "," THEN ParseJsonMembers(s, e + 1, acc2)
                                            ELSE IF s[e] = "}" THEN JsonOk(Obj(acc2), e + 1)
                                            ELSE JsonFail

\* One JSON value at or after position i.
ParseJsonValue(s, i) ==
    LET j == SkipWs(s, i)
        lit(w) == j + Len(w) - 1 <= Len(s) /\ SubSeq(s, j, j + Len(w) - 1) = w
    IN  IF j > Len(s) THEN JsonFail
        ELSE IF s[j] = "{"
             THEN LET e == SkipWs(s, j + 1)
                  IN  IF e <= Len(s) /\ s[e] = "}" THEN JsonOk(Obj(<<>>), e + 1)
                      ELSE ParseJsonMembers(s, j + 1, <<>>)
        ELSE IF s[j] = "["
             THEN LET e == SkipWs(s, j + 1)
                  IN  IF e <= Len(s) /\ s[e] = "]" THEN JsonOk(Arr(<<>>), e + 1)
                      ELSE ParseJsonElements(s, j + 1, <<>>)
        ELSE IF s[j] = "\""
             THEN LET r == ParseJsonString(s, j + 1, <<>>)
                  IN  IF r.ok THEN JsonOk(Str(r.v), r.i) ELSE JsonFail
        ELSE IF s[j] = "-" \/ IsDigit(s[j]) THEN ParseJsonNumber(s, j)
        ELSE IF lit(S("true")) THEN JsonOk(Bool(TRUE), j + 4)
        ELSE IF lit(S("false")) THEN JsonOk(Bool(FALSE), j + 5)
        ELSE IF lit(S("null")) THEN JsonOk(Null, j + 4)
        ELSE JsonFail

\* JSON.parse(s): the value, or ok = FALSE where JSON.parse throws SyntaxError.
JsonParse(s) ==
    LET r == ParseJsonValue(s, 1)
    IN  IF r.ok /\ SkipWs(s, r.i) > Len(s) THEN [ok |-> TRUE, v |-> r.v] ELSE JsonFail

(***************************************************************************)
(* HttpConverter: parsing                                                  *)
(***************************************************************************)

\* A call that returns normally.
Ok(v) == [ok |-> TRUE, value |-> v]

\* createError(code, message): a call that throws a ConversionError.
Throw(code) == [ok |-> FALSE, code |-> code]

\* A call that throws, or a promise that rejects with, an Error that
\* createError did not make: its code property is undefined.
ThrowError == [ok |-> FALSE, code |-> "undefined"]

\* The header loop of the three parsers: scan lines[from..]; stop at the first
\* empty line (blank is its position, 0 when there is none); a line whose
\* first colon is not at its first character sets headers[key] = value, the
\* key lowercased when `lower`.
RECURSIVE ParseHeaderLines(_, _, _, _)
ParseHeaderLines(lines, i, lower, headers) ==
    IF i > Len(lines) THEN [headers |-> headers, blank |-> 0]
    ELSE IF Len(lines[i]) = 0 THEN [headers |-> headers, blank |-> i]
    ELSE LET line == lines[i]
             colon == IndexOf(line, <<":">>)
             raw == SubSeq(line, 1, colon - 1)
             key == IF lower THEN ToLowerCase(raw) ELSE raw
             value == Trim(SubSeq(line, colon + 1, Len(line)))
         IN  IF colon > 1
             THEN ParseHeaderLines(lines, i + 1, lower, SetProperty(headers, key, value))
             ELSE ParseHeaderLines(lines, i + 1, lower, headers)

\* headers[key] || '' on a header mapping.
HeaderOrEmpty(headers, key) ==
    LET h == ObjGet(headers, key) IN IF Truthy(h) THEN h.v ELSE <<>>

\* The first match of /<prefix>([^<stop>]+)/ in s, or of
\* /<prefix>([^<stop>]+)<stop>/ when `closed`: the group, or Undefined when
\* there is no match.  The group is greedy, so it is the whole run of
\* characters other than <stop> after the prefix.
MatchAfter(s, prefix, stop, closed) ==
    LET n == Len(prefix)
        runEnd(i) ==
            LET ends == {e \in (i + n)..Len(s) : \A k \in (i + n)..e : s[k] # stop}
            IN  CHOOSE e \in ends : \A j \in ends : e >= j
        hits == {i \in 1..(Len(s) - n) :
                    /\ SubSeq(s, i, i + n - 1) = prefix
                    /\ s[i + n] # stop
                    /\ closed => runEnd(i) < Len(s)}
    IN  IF hits = {} THEN Undefined
        ELSE LET i == CHOOSE h \in hits : \A j \in hits : h <= j
             IN  Str(SubSeq(s, i + n, runEnd(i)))

\* new Blob([...], {type}).type: lowercased, or '' when the type holds a
\* character outside U+0020..U+007E.
BlobType(type) ==
    IF \E i \in 1..Len(type) : Len(type[i]) # 1 \/ type[i] \in {"\r", "\n", "\t"}
    THEN <<>> ELSE ToLowerCase(type)

\* One iteration of the loop over parts in parseMultipartData.
ParseMultipartPart(acc, part) ==
    IF Trim(part) = <<>> \/ Trim(part) = S("--") THEN acc
    ELSE LET lines == Split(part, CRLF)
             h == ParseHeaderLines(lines, 1, TRUE, <<>>)
             content == Join(SubSeq(lines, h.blank + 1, Len(lines)), CRLF)
             disposition == HeaderOrEmpty(h.headers, S("content-disposition"))
             nameMatch == MatchAfter(disposition, S("name=\""), "\"", TRUE)
             filenameMatch == MatchAfter(disposition, S("filename=\""), "\"", TRUE)
             ctype == LET c == ObjGet(h.headers, S("content-type"))
                      IN  IF Truthy(c) THEN c.v ELSE S("application/octet-stream")
         IN  IF h.blank = 0 THEN acc
             ELSE IF nameMatch.t = "undefined" THEN acc
             ELSE IF filenameMatch.t # "undefined"
                  THEN [acc EXCEPT !.files = Append(@, [name |-> nameMatch.v,
                                                        filename |-> filenameMatch.v,
                                                        contentType |-> ctype,
                                                        data |-> TextEncode(content)])]
             ELSE [acc EXCEPT !.fields = SetProperty(@, nameMatch.v, content)]

\* The loop over parts in parseMultipartData.
RECURSIVE ParseMultipartParts(_, _)
ParseMultipartParts(acc, parts) ==
    IF Len(parts) = 0 THEN acc
    ELSE ParseMultipartParts(ParseMultipartPart(acc, Head(parts)), Tail(parts))

\* parseMultipartData(body, contentType), once the boundary pattern has been
\* matched against the content type.
ParseMultipartBody(body, boundaryMatch) ==
    IF boundaryMatch.t = "undefined" THEN Throw("INVALID_MULTIPART")
    ELSE Ok(ParseMultipartParts([fields |-> <<>>, files |-> <<>>],
                                Split(TextDecode(body), S("--") \o boundaryMatch.v)))

\* parseMultipartData(body, contentType).
parseMultipartData(body, contentType) ==
    ParseMultipartBody(body, MatchAfter(contentType, S("boundary="), ";", FALSE))

\* InvalidRequestFormat with the part count off by one: a request line of two
\* parts is let through.
InvalidRequestFormatTwoParts(lines) ==
    \/ Len(lines) < 2
    \/ Len(lines[1]) = 0
    \/ Len(Split(lines[1], <<" ">>)) < 2

\* The three format checks at the head of parseHttpRequest: fewer than two
\* lines, an empty request line, fewer than three space-separated parts.
InvalidRequestFormat(lines) ==
    \/ Len(lines) < 2
    \/ Len(lines[1]) = 0
    \/ Len(Split(lines[1], <<" ">>)) < 3

\* The ParsedHttpRequest that parseHttpRequest returns.
ParsedRequest(requestParts, headers, body, multipartData) ==
    [method |-> requestParts[1],
     url |-> requestParts[2],
     headers |-> headers,
     body |-> body,
     multipartData |-> multipartData]

\* parseHttpRequest, after parseMultipartData has returned or thrown.
ParseRequestResult(requestParts, headers, body, multipart) ==
    IF ~multipart.ok THEN multipart
    ELSE Ok(ParsedRequest(requestParts, headers, Bytes(body), multipart.value))

\* parseHttpRequest, with the body bytes in hand: the multipart check.
ParseRequestMultipart(requestParts, headers, body, contentType) ==
    IF Includes(contentType, S("multipart/form-data"))
    THEN ParseRequestResult(requestParts, headers, body, parseMultipartData(body, contentType))
    ELSE Ok(ParsedRequest(requestParts, headers, Bytes(body), Undefined))

\* parseHttpRequest, after the header loop (h.blank is the position of the
\* empty line): the body is the text of the lines after it.
ParseRequestBody(requestParts, lines, h) ==
    IF h.blank > 0 /\ h.blank < Len(lines)
    THEN ParseRequestMultipart(requestParts, h.headers,
                               TextEncode(Join(SubSeq(lines, h.blank + 1, Len(lines)), CRLF)),
                               HeaderOrEmpty(h.headers, S("content-type")))
    ELSE Ok(ParsedRequest(requestParts, h.headers, Undefined, Undefined))

\* parseHttpRequest on the lines of the decoded text.
ParseRequestLines(lines, preserveHeaderCase) ==
    IF InvalidRequestFormat(lines) THEN Throw("INVALID_HTTP_FORMAT")
    ELSE ParseRequestBody(Split(lines[1], <<" ">>), lines,
                          ParseHeaderLines(lines, 2, ~preserveHeaderCase, <<>>))

\* parseHttpRequest(httpBytes) under the option preserveHeaderCase.
parseHttpRequest(httpBytes, preserveHeaderCase) ==
    ParseRequestLines(Split(TextDecode(httpBytes), CRLF), preserveHeaderCase)

\* statusLine.match(/HTTP\/\d\.\d\s+(\d+)\s+(.+)/): the two groups of the
\* first match, or ok = FALSE.  The pattern is not anchored, so the match may
\* start anywhere in the line.  \s+ and \d+ are followed by a character of
\* another class and so take whole runs; the second \s+ gives back white
\* space only when nothing else is left for (.+), and (.+) stops at a line
\* terminator.
StatusLineMatch(line) ==
    LET n == Len(line)
        runEnd(i, P(_)) ==
            \* the last position of the run of P-characters starting at i
            LET ends == {e \in i..n : \A k \in i..e : P(line[k])}
            IN  IF ends = {} THEN i - 1 ELSE CHOOSE e \in ends : \A j \in ends : e >= j
        NotLT(c) == ~IsLineTerminator(c)
        at(i) ==
            IF ~(/\ i + 7 <= n
                 /\ SubSeq(line, i, i + 4) = S("HTTP/")
                 /\ IsDigit(line[i + 5])
                 /\ line[i + 6] = "."
                 /\ IsDigit(line[i + 7]))
            THEN [ok |-> FALSE]
            ELSE LET s1 == runEnd(i + 8, IsSpace)
                     d == runEnd(s1 + 1, IsDigit)
                     s2 == runEnd(d + 1, IsSpace)
                     \* where (.+) may start: after j characters of the second
                     \* white-space run, the largest j first
                     starts == {t \in (d + 2)..(s2 + 1) : t <= n /\ NotLT(line[t])}
                 IN  IF s1 < i + 8 \/ d < s1 + 1 \/ s2 < d + 1 \/ starts = {}
                     THEN [ok |-> FALSE]
                     ELSE LET t == CHOOSE x \in starts : \A y \in starts : x >= y
                          IN  [ok |-> TRUE,
                               code |-> SubSeq(line, s1 + 1, d),
                               text |-> SubSeq(line, t, runEnd(t, NotLT))]
        hits == {i \in 1..n : at(i).ok}
    IN  IF hits = {} THEN [ok |-> FALSE]
        ELSE at(CHOOSE i \in hits : \A j \in hits : i <= j)

\* parseHttpResponse: the body, undefined when its text is empty.
ResponseBody(bodyText) ==
    IF Len(bodyText) > 0 THEN Bytes(TextEncode(bodyText)) ELSE Undefined

\* parseHttpResponse, after the header loop.
ParseResponseBody(statusMatch, lines, h) ==
    Ok([status |-> ParseDigits(statusMatch.code),
        statusText |-> statusMatch.text,
        headers |-> h.headers,
        body |-> IF h.blank > 0 /\ h.blank < Len(lines)
                 THEN ResponseBody(Join(SubSeq(lines, h.blank + 1, Len(lines)), CRLF))
                 ELSE Undefined])

\* parseHttpResponse, after the status line pattern has been tried.
ParseResponseHead(statusMatch, lines, preserveHeaderCase) ==
    IF ~statusMatch.ok THEN Throw("INVALID_HTTP_FORMAT")
    ELSE ParseResponseBody(statusMatch, lines,
                           ParseHeaderLines(lines, 2, ~preserveHeaderCase, <<>>))

\* parseHttpResponse on the lines of the decoded text.
ParseResponseLines(lines, preserveHeaderCase) ==
    IF Len(lines) < 2 THEN Throw("INVALID_HTTP_FORMAT")
    ELSE IF Len(lines[1]) = 0 THEN Throw("INVALID_HTTP_FORMAT")
    ELSE ParseResponseHead(StatusLineMatch(lines[1]), lines, preserveHeaderCase)

\* parseHttpResponse(httpBytes) under the option preserveHeaderCase.
parseHttpResponse(httpBytes, preserveHeaderCase) ==
    ParseResponseLines(Split(TextDecode(httpBytes), CRLF), preserveHeaderCase)

(***************************************************************************)
(* HttpConverter: the four conversions                                     *)
(***************************************************************************)

\* The FormData that httpBytesToAxiosRequest builds from the parsed multipart
\* data: the fields first, then the files.
FormOfMultipart(multipartData) ==
    Form([i \in 1..Len(multipartData.fields) |->
             Field(multipartData.fields[i][1], multipartData.fields[i][2])]
         \o [i \in 1..Len(multipartData.files) |->
                File(multipartData.files[i].name,
                     multipartData.files[i].filename,
                     BlobType(multipartData.files[i].contentType),
                     multipartData.files[i].data)])

\* httpBytesToAxiosRequest, after parseHttpRequest has returned or thrown.
RequestOfParsed(r) ==
    IF ~r.ok THEN r
    ELSE Ok([method |-> ToLowerCase(r.value.method),
             url |-> r.value.url,
             headers |-> r.value.headers,
             data |-> IF r.value.multipartData # Undefined
                      THEN FormOfMultipart(r.value.multipartData)
                      ELSE r.value.body])

\* httpBytesToAxiosRequest(httpBytes).
httpBytesToAxiosRequest(httpBytes, opts) ==
    RequestOfParsed(parseHttpRequest(httpBytes, opts.preserveHeaderCase))

\* `${value}` for a header value or a form value.
ToStr(x) ==
    CASE x.t = "str" -> x.v
      [] x.t = "num" -> IntToString(x.v)
      [] x.t = "bool" -> IF x.v THEN S("true") ELSE S("false")
      [] x.t = "null" -> S("null")
      [] x.t = "undefined" -> S("undefined")

\* readBlobAsArrayBuffer(blob): the bytes of the blob.
readBlobAsArrayBuffer(entry) == entry.data

\* const boundary = this.options.multipartBoundary, in place of which a
\* boundary is made up for the call.
BoundaryOfCall(opts) == S("----WebKitFormBoundaryq1")

Boundary(opts) == opts.multipartBoundary

\* The text `part` that one iteration of the loop over formData.entries()
\* builds: the header block of a file entry, the whole part of a field.
PartText(entry, boundary) ==
    LET open == S("--") \o boundary \o CRLF
    IN  IF entry.file
        THEN LET filename == IF Len(entry.filename) > 0 THEN entry.filename ELSE S("blob")
                 contentType == IF Len(entry.type) > 0 THEN entry.type
                                ELSE S("application/octet-stream")
             IN  open
                 \o S("Content-Disposition: form-data; name=\"") \o entry.name
                 \o S("\"; filename=\"") \o filename \o S("\"") \o CRLF
                 \o S("Content-Type: ") \o contentType \o CRLF
                 \o CRLF
        ELSE open
             \o S("Content-Disposition: form-data; name=\"") \o entry.name
             \o S("\"") \o CRLF
             \o CRLF
             \o entry.value
             \o CRLF

\* The closing boundary that buildMultipartBody pushes after the loop.
ClosingBoundary(boundary) == TextEncode(S("--") \o boundary \o S("--") \o CRLF)

\* buildMultipartBody from entry i on, with `parts` pushed so far, up to its
\* next await: the loop runs until it reaches a file entry, whose header it
\* pushes before it waits for the read (next is the index of that entry),
\* or until the entries are exhausted and the closing boundary is pushed
\* (next is past the last entry).
RECURSIVE BuildParts(_, _, _, _)
BuildParts(entries, boundary, i, parts) ==
    IF i > Len(entries) THEN [parts |-> parts \o ClosingBoundary(boundary), next |-> i]
    ELSE IF entries[i].file
    THEN [parts |-> parts \o TextEncode(PartText(entries[i], boundary)), next |-> i]
    ELSE BuildParts(entries, boundary, i + 1,
                    parts \o TextEncode(PartText(entries[i], boundary)))

\* One iteration of the loop over formData.entries() in buildMultipartBody:
\* the bytes the entry adds to `parts`.
MultipartPart(entry, boundary) ==
    LET open == S("--") \o boundary \o CRLF
    IN  IF entry.file
        THEN LET filename == IF Len(entry.filename) > 0 THEN entry.filename ELSE S("blob")
                 contentType == IF Len(entry.type) > 0 THEN entry.type
                                ELSE S("application/octet-stream")
             IN  TextEncode(open
                            \o S("Content-Disposition: form-data; name=\"") \o entry.name
                            \o S("\"; filename=\"") \o filename \o S("\"") \o CRLF
                            \o S("Content-Type: ") \o contentType \o CRLF
                            \o CRLF)
                 \o readBlobAsArrayBuffer(entry)
        ELSE TextEncode(open
                        \o S("Content-Disposition: form-data; name=\"") \o entry.name
                        \o S("\"") \o CRLF
                        \o CRLF
                        \o entry.value
                        \o CRLF)

\* buildMultipartBody(formData, boundary).
buildMultipartBody(entries, boundary) ==
    Flatten([i \in 1..Len(entries) |-> MultipartPart(entries[i], boundary)])
    \o TextEncode(S("--") \o boundary \o S("--") \o CRLF)

\* The name under which the encoders emit a header the caller named `key`:
\* this.options.preserveHeaderCase ? key : key.toLowerCase().
HeaderKeyLowercased(key, preserveHeaderCase) == ToLowerCase(key)

HeaderKey(key, preserveHeaderCase) ==
    IF preserveHeaderCase THEN key ELSE ToLowerCase(key)

\* The header loop run over the entries from the last to the first.
RequestHeaderLinesReversed(headers, data, preserveHeaderCase) ==
    LET is_form_data == data.t = "form"
        line(h) ==
            IF h[2].t \in {"undefined", "null"} THEN <<>>
            ELSE IF is_form_data /\ ToLowerCase(h[1]) = S("content-type") THEN <<>>
            ELSE IF is_form_data /\ ToLowerCase(h[1]) = S("content-length") THEN <<>>
            ELSE IF ~Truthy(data) /\ ToLowerCase(h[1]) = S("content-type") THEN <<>>
            ELSE HeaderKey(h[1], preserveHeaderCase) \o S(": ") \o ToStr(h[2]) \o CRLF
    IN  Flatten([i \in 1..Len(headers) |-> line(headers[Len(headers) + 1 - i])])

\* The header loop without the two FormData exclusions.
RequestHeaderLinesFormKept(headers, data, preserveHeaderCase) ==
    LET line(h) ==
            IF h[2].t \in {"undefined", "null"} THEN <<>>
            ELSE IF ~Truthy(data) /\ ToLowerCase(h[1]) = S("content-type") THEN <<>>
            ELSE HeaderKey(h[1], preserveHeaderCase) \o S(": ") \o ToStr(h[2]) \o CRLF
    IN  Flatten([i \in 1..Len(headers) |-> line(headers[i])])

\* The header lines axiosRequestToHttpBytes emits for the caller's headers.
RequestHeaderLines(headers, data, preserveHeaderCase) ==
    LET is_form_data == data.t = "form"
        line(h) ==
            LET key == h[1]
                value == h[2]
                headerKeyLower == ToLowerCase(key)
            IN  IF value.t \in {"undefined", "null"} THEN <<>>
                ELSE IF is_form_data /\ headerKeyLower = S("content-type") THEN <<>>
                ELSE IF is_form_data /\ headerKeyLower = S("content-length") THEN <<>>
                ELSE IF ~Truthy(data) /\ headerKeyLower = S("content-type") THEN <<>>
                ELSE HeaderKey(key, preserveHeaderCase)
                     \o S(": ") \o ToStr(value) \o CRLF
    IN  Flatten([i \in 1..Len(headers) |-> line(headers[i])])

\* axiosRequestToHttpBytes(config): the bytes the returned promise resolves to.
\* config.method and config.url are Str or Undefined, config.headers is a
\* plain object (Obj) or Undefined.
axiosRequestToHttpBytes(config, opts) ==
    LET method == ToUpperCase(IF Truthy(config.method) THEN config.method.v ELSE S("GET"))
        url == IF Truthy(config.url) THEN config.url.v ELSE <<>>
        headers == IF Truthy(config.headers) THEN config.headers.v ELSE <<>>
        data == config.data
        start == method \o S(" ") \o url \o S(" HTTP/1.1") \o CRLF
                 \o RequestHeaderLines(headers, data, opts.preserveHeaderCase)
        boundary == Boundary(opts)
        multipartBody == buildMultipartBody(data.v, boundary)
        hasContentType ==
            \E i \in 1..Len(headers) : ToLowerCase(headers[i][1]) = S("content-type")
        isJson == Truthy(data) /\ data.t \notin {"str", "bytes"}
        bodyBytes == IF ~Truthy(data) THEN Undefined
                     ELSE IF data.t = "str" THEN Bytes(TextEncode(data.v))
                     ELSE IF data.t = "bytes" THEN data
                     ELSE Bytes(TextEncode(JsonStringify(data)))
    IN  IF data.t = "form"
        THEN TextEncode(start
                        \o S("content-type: multipart/form-data; boundary=")
                        \o boundary \o CRLF
                        \o S("content-length: ") \o NatToString(Len(multipartBody)) \o CRLF
                        \o CRLF)
             \o multipartBody
        ELSE TextEncode(start
                        \o (IF isJson /\ ~hasContentType
                            THEN S("content-type: application/json") \o CRLF ELSE <<>>)
                        \o (IF bodyBytes # Undefined
                            THEN S("content-length: ") \o NatToString(Len(bodyBytes.v)) \o CRLF
                            ELSE <<>>)
                        \o CRLF)
             \o (IF bodyBytes # Undefined THEN bodyBytes.v ELSE <<>>)

\* axiosRequestToHttpBytes on a FormData up to its first await: the request
\* line, the caller's headers and the computed content-type are written to
\* httpRequest, and buildMultipartBody has run up to its own first await.
\* The frame holds the locals of the suspended call.
BeginMultipart(config, opts) ==
    LET method == ToUpperCase(IF Truthy(config.method) THEN config.method.v ELSE S("GET"))
        url == IF Truthy(config.url) THEN config.url.v ELSE <<>>
        headers == IF Truthy(config.headers) THEN config.headers.v ELSE <<>>
        boundary == Boundary(opts)
        built == BuildParts(config.data.v, boundary, 1, <<>>)
    IN  [config |-> config,
         boundary |-> boundary,
         httpRequest |-> method \o S(" ") \o url \o S(" HTTP/1.1") \o CRLF
                         \o RequestHeaderLines(headers, config.data, opts.preserveHeaderCase)
                         \o S("content-type: multipart/form-data; boundary=")
                         \o boundary \o CRLF,
         parts |-> built.parts,
         next |-> built.next]

\* The loop going on without waiting for the read: the parts of the later
\* entries are pushed first, fileData when the read delivers it.
ResumeMultipartUnawaited(frame, parts, fileData) ==
    LET built == BuildParts(frame.config.data.v, frame.boundary, frame.next + 1, parts)
    IN  [frame EXCEPT !.parts = built.parts \o fileData, !.next = built.next]

\* The read of the attachment the frame waits for has delivered fileData:
\* it is pushed and the loop goes on to its next await.
ResumeMultipart(frame, parts, fileData) ==
    LET built == BuildParts(frame.config.data.v, frame.boundary, frame.next + 1,
                            parts \o fileData)
    IN  [frame EXCEPT !.parts = built.parts, !.next = built.next]

\* buildMultipartBody has returned: the content-length and the blank line
\* are written and header and body are combined.
FinishMultipart(frame, parts) ==
    TextEncode(frame.httpRequest
               \o S("content-length: ") \o NatToString(Len(parts)) \o CRLF
               \o CRLF)
    \o parts

\* axiosResponseToHttpBytes(response).  response.status is a number,
\* response.statusText a string, response.headers an Obj or Undefined.
axiosResponseToHttpBytes(response, opts) ==
    LET headers == IF Truthy(response.headers) THEN response.headers.v ELSE <<>>
        data == response.data
        line(h) == HeaderKey(h[1], opts.preserveHeaderCase)
                   \o S(": ") \o ToStr(h[2]) \o CRLF
        hasContentType ==
            \E i \in 1..Len(headers) :
                headers[i][1] = S("content-type") /\ Truthy(headers[i][2])
        isJson == Truthy(data) /\ data.t \notin {"str", "bytes"}
        bodyBytes == IF ~Truthy(data) THEN Undefined
                     ELSE IF data.t = "str" THEN Bytes(TextEncode(data.v))
                     ELSE IF data.t = "bytes" THEN data
                     ELSE Bytes(TextEncode(JsonStringify(data)))
    IN  TextEncode(S("HTTP/1.1 ") \o ToStr(response.status) \o S(" ")
                   \o ToStr(response.statusText) \o CRLF
                   \o Flatten([i \in 1..Len(headers) |-> line(headers[i])])
                   \o (IF isJson /\ ~hasContentType
                       THEN S("Content-Type: application/json") \o CRLF ELSE <<>>)
                   \o (IF bodyBytes # Undefined
                       THEN S("Content-Length: ") \o NatToString(Len(bodyBytes.v)) \o CRLF
                       ELSE <<>>)
                   \o CRLF)
    \o (IF bodyBytes # Undefined THEN bodyBytes.v ELSE <<>>)

(***************************************************************************)
(* httpBytesToAxiosResponse: content-type dispatch and custom transforms   *)
(***************************************************************************)

\* /^application\/.*\+json$/.test(contentType)
MatchesPlusJson(contentType) ==
    LET pre == S("application/")
        suf == S("+json")
        n == Len(contentType)
    IN  /\ n >= Len(pre) + Len(suf)
        /\ SubSeq(contentType, 1, Len(pre)) = pre
        /\ SubSeq(contentType, n - Len(suf) + 1, n) = suf
        /\ \A i \in (Len(pre) + 1)..(n - Len(suf)) : ~IsLineTerminator(contentType[i])

\* Whether new TextDecoder().decode(bytes) throws: the decoder is not
\* constructed with {fatal: true}, so it never does.
TextDecodeThrows(bytes) == FALSE

\* try { new TextDecoder().decode(body) } catch { body }
DecodeOrKeep(body) ==
    IF TextDecodeThrows(body.v) THEN body ELSE Str(TextDecode(body.v))

\* The default transformation of the body by content type.
Dispatch(body, contentType) ==
    IF body = Undefined \/ Len(body.v) = 0 THEN body
    ELSE IF Includes(contentType, S("application/json")) \/ MatchesPlusJson(contentType)
         THEN LET r == JsonParse(TextDecode(body.v))
              IN  IF r.ok THEN r.v ELSE body
    ELSE IF StartsWith(contentType, S("text/")) THEN Str(TextDecode(body.v))
    ELSE IF Includes(contentType, S("application/x-www-form-urlencoded"))
         THEN Str(TextDecode(body.v))
    ELSE IF Includes(contentType, S("application/xml")) \/ Includes(contentType, S("text/xml"))
         THEN Str(TextDecode(body.v))
    ELSE IF Includes(contentType, S("application/octet-stream")) THEN DecodeOrKeep(body)
    ELSE DecodeOrKeep(body)

\* The functions a caller may configure in transformResponse, by name.
Transforms == {"wrap", "ctype", "fail"}

\* transform(data, headers): the value returned, or threw = TRUE.
\*   wrap:  (data) => ({w: data})
\*   ctype: (data, headers) => headers['content-type'] || ''
\*   fail:  () => { throw new Error() }
ApplyTransform(f, data, headers) ==
    CASE f = "wrap" -> [threw |-> FALSE, ret |-> Obj(<< <<S("w"), data>> >>)]
      [] f = "ctype" -> [threw |-> FALSE, ret |-> Str(HeaderOrEmpty(headers, S("content-type")))]
      [] f = "fail" -> [threw |-> TRUE]

\* RunTransforms that leaves the loop at the first transform that throws.
RECURSIVE RunTransformsStopOnThrow(_, _, _, _)
RunTransformsStopOnThrow(fns, data, headers, trace) ==
    IF Len(fns) = 0 THEN [data |-> data, calls |-> trace]
    ELSE LET r == ApplyTransform(Head(fns), data, headers)
             call == [fn |-> Head(fns), data |-> data, headers |-> headers,
                      threw |-> r.threw, ret |-> IF r.threw THEN Undefined ELSE r.ret]
         IN  IF r.threw THEN [data |-> data, calls |-> Append(trace, call)]
             ELSE RunTransformsStopOnThrow(Tail(fns), r.ret, headers, Append(trace, call))

\* RunTransforms that hands every transform the dispatched body instead of
\* the value the previous transform returned.
RECURSIVE RunTransformsUnchained(_, _, _, _)
RunTransformsUnchained(fns, data, headers, trace) ==
    IF Len(fns) = 0 THEN [data |-> data, calls |-> trace]
    ELSE LET first == IF Len(trace) = 0 THEN data ELSE trace[1].data
             r == ApplyTransform(Head(fns), first, headers)
             call == [fn |-> Head(fns), data |-> first, headers |-> headers,
                      threw |-> r.threw, ret |-> IF r.threw THEN Undefined ELSE r.ret]
         IN  RunTransformsUnchained(Tail(fns), IF r.threw THEN data ELSE r.ret, headers,
                                    Append(trace, call))

\* The loop over this.options.transformResponse: the final data and the record
\* of the calls made (function, arguments, and what the call did).
RECURSIVE RunTransforms(_, _, _, _)
RunTransforms(fns, data, headers, trace) ==
    IF Len(fns) = 0 THEN [data |-> data, calls |-> trace]
    ELSE LET r == ApplyTransform(Head(fns), data, headers)
             call == [fn |-> Head(fns), data |-> data, headers |-> headers,
                      threw |-> r.threw, ret |-> IF r.threw THEN Undefined ELSE r.ret]
         IN  RunTransforms(Tail(fns), IF r.threw THEN data ELSE r.ret, headers,
                           Append(trace, call))

\* httpBytesToAxiosResponse: the response returned, with the dispatched body
\* and the calls of the custom transforms.
ResponseResult(parsed, d, t) ==
    [result |-> Ok([data |-> t.data,
                    status |-> parsed.status,
                    statusText |-> parsed.statusText,
                    headers |-> parsed.headers]),
     dispatched |-> d,
     calls |-> t.calls]

\* httpBytesToAxiosResponse, after the content-type dispatch gave d.
TransformResponse(parsed, d, opts) ==
    ResponseResult(parsed, d,
                   IF opts.transformResponse = Undefined
                   THEN [data |-> d, calls |-> <<>>]
                   ELSE RunTransforms(opts.transformResponse.v, d, parsed.headers, <<>>))

\* httpBytesToAxiosResponse, after parseHttpResponse has returned or thrown.
DecodeParsedResponse(r, opts) ==
    IF ~r.ok THEN [result |-> r, dispatched |-> Undefined, calls |-> <<>>]
    ELSE TransformResponse(r.value,
                           Dispatch(r.value.body,
                                    HeaderOrEmpty(r.value.headers, S("content-type"))),
                           opts)

\* httpBytesToAxiosResponse(httpBytes), with the dispatched body and the calls
\* of the custom transforms it made.
ResponseDecode(httpBytes, opts) ==
    DecodeParsedResponse(parseHttpResponse(httpBytes, opts.preserveHeaderCase), opts)

httpBytesToAxiosResponse(httpBytes, opts) == ResponseDecode(httpBytes, opts).result

(***************************************************************************)
(* Bounds and inputs                                                       *)
(***************************************************************************)

\* The largest number of header lines in a message, or of entries in a
\* header mapping, that the inputs carry.
MaxHeaders == 2

\* The largest number of functions in options.transformResponse.
MaxTransforms == 2

\* All sequences of length at most n over the set.
SeqsUpTo(set, n) == UNION {[1..k -> set] : k \in 0..n}

\* A header mapping is a JavaScript object: its keys are distinct.
DistinctKeys(pairs) == \A i, j \in 1..Len(pairs) : pairs[i][1] = pairs[j][1] => i = j

\* The arguments a converter is constructed with: each option is given or not.
ConverterOptions ==
    [maxBodySize : {Undefined, Num(2048)},
     preserveHeaderCase : {Undefined, Bool(FALSE), Bool(TRUE)},
     multipartBoundary : {Undefined, Str(S("b7"))},
     transformResponse : {Undefined} \cup {Arr(l) : l \in SeqsUpTo(Transforms, MaxTransforms)}]

\* generateBoundary(): '----WebKitFormBoundary' followed by the base-36
\* digits of Math.random(); the values it may return.
generateBoundary == {S("----WebKitFormBoundaryk3"), S("----WebKitFormBoundaryz9")}

\* constructor(options): this.options, where `generated` is what
\* generateBoundary() returns when it is called.
constructor(given, generated) ==
    [maxBodySize |-> given.maxBodySize,
     preserveHeaderCase |-> IF given.preserveHeaderCase = Undefined THEN FALSE
                            ELSE given.preserveHeaderCase.v,
     multipartBoundary |-> IF given.multipartBoundary = Undefined THEN generated
                           ELSE given.multipartBoundary.v,
     transformResponse |-> given.transformResponse]

\* The option values a converter holds after construction.
AllOptions ==
    {constructor(given, generated) : given \in ConverterOptions, generated \in generateBoundary}

\* Structured requests ------------------------------------------------------

RequestTargets ==
    {<<Str(S("POST")), Str(S("/u"))>>,
     <<Str(S("get")), Str(S("/a?b=c#d"))>>,
     <<Str(S("Put")), Str(S("/a b"))>>,
     <<Undefined, Undefined>>}

RequestHeaderPool ==
    {<<S("X-A"), Str(S("1"))>>,
     <<S("x-a"), Str(S("2"))>>,
     <<S("Content-Type"), Str(S("application/json"))>>,
     <<S("content-length"), Str(S("5"))>>,
     <<S("X-B"), Str(S(" v "))>>,
     <<S("X-N"), Null>>}

SampleForm == Form(<<Field(S("n"), S("v")), File(S("f"), S("x.txt"), S("text/plain"), S("c"))>>)

\* A form whose text field holds a character of two UTF-8 bytes.
AccentForm == Form(<<Field(S("n"), <<"xC3xA9">>)>>)

RequestData ==
    {Obj(<< <<S("a"), Num(1)>> >>),
     Arr(<<Str(S("x\"y"))>>),
     Str(S("hi")),
     Num(0),
     Null,
     Undefined,
     Bytes(<<"a", "xFF">>),
     SampleForm,
     AccentForm}

RequestConfigs ==
    {[method |-> t[1], url |-> t[2], headers |-> Obj(h), data |-> d] :
        t \in RequestTargets,
        h \in {l \in SeqsUpTo(RequestHeaderPool, MaxHeaders) : DistinctKeys(l)},
        d \in RequestData}

\* The request configs with one request target: every header mapping and
\* every kind of data.
CodecConfigs == {config \in RequestConfigs : config.method = Str(S("POST"))}

\* Raw requests -------------------------------------------------------------

StartLines ==
    {S("GET /u HTTP/1.1"), S("POST /a?b=c#d HTTP/1.1"), S("GET"), S("GET /u"),
     S("GET  "), S(""), S("get /a b HTTP/1.1"), S(" / x")}

RawHeaderLines ==
    {S("Host: e.com"),
     S("host:two"),
     S("X-A:  v:w "),
     S("nocolon"),
     S(":x"),
     S("Content-Type: multipart/form-data"),
     S("content-type: multipart/form-data"),
     S("content-type: multipart/form-data; boundary=b7")}

SampleMultipartBody ==
    S("--b7\r\nContent-Disposition: form-data; name=\"n\"\r\n\r\nv\r\n")
    \o S("--b7\r\nContent-Disposition: form-data; name=\"f\"; filename=\"x.txt\"\r\n")
    \o S("Content-Type: text/plain\r\n\r\nc\r\n--b7--\r\n")

RequestBodies ==
    {<<>>, S("a"), S("a\r\n\r\nb"), <<"a", "xFF">>, S("{\"a\":1}"), SampleMultipartBody}

\* A start line, up to MaxHeaders header lines, and either nothing, or the
\* blank line and a body.
MessagesOver(startLines, headerLines, bodies) ==
    {sl \o CRLF \o Flatten([i \in 1..Len(hs) |-> hs[i] \o CRLF]) \o tail :
        sl \in startLines,
        hs \in SeqsUpTo(headerLines, MaxHeaders),
        tail \in {<<>>} \cup {CRLF \o b : b \in bodies}}

RawRequests ==
    {<<>>, S("GET /u HTTP/1.1"), S("Invalid HTTP")}
    \cup MessagesOver(StartLines, {}, {<<>>})
    \cup MessagesOver({S("POST /u HTTP/1.1")}, RawHeaderLines, RequestBodies)

\* Structured responses -----------------------------------------------------

ResponseStatuses ==
    {<<Num(200), Str(S("OK"))>>,
     <<Num(404), Str(S("Not Found (x)"))>>,
     <<Num(204), Str(<<>>)>>,
     <<Num(200), Str(S(" x"))>>}

ResponseHeaderPool ==
    {<<S("content-type"), Str(S("application/json"))>>,
     <<S("Content-Type"), Str(S("text/plain"))>>,
     <<S("Content-Length"), Str(S("10"))>>,
     <<S("x-a"), Str(S("1"))>>}

ResponseData ==
    {Obj(<< <<S("a"), Num(1)>> >>),
     Arr(<<Str(S("x")), Null>>),
     Str(S("hi")),
     Num(0),
     Undefined,
     Bytes(<<"a", "xFF">>)}

Responses ==
    {[status |-> t[1], statusText |-> t[2], headers |-> Obj(h), data |-> d] :
        t \in ResponseStatuses,
        h \in {l \in SeqsUpTo(ResponseHeaderPool, MaxHeaders) : DistinctKeys(l)},
        d \in ResponseData}

\* Raw responses ------------------------------------------------------------

StatusLines ==
    {S("HTTP/1.1 200 OK"), S("HTTP/1.1 404 Not Found (Resource Missing)"),
     S("HTTP/1.1"), S("HTTP/1.1 200"), S("HTTP/1.1 200 "), S("HTTP/1.1 200  "),
     S("HTTP/1.1 abc OK"), S("HTTP/1.1  007   a  b "), S("HTTP/2 200 OK"),
     S("ICY HTTP/1.0 201 Created"), S("HTTP/1.1 abc HTTP/1.0 500 no"), S("")}

ResponseHeaderLines ==
    {S("content-type: application/json"),
     S("Content-Type: application/json"),
     S("content-type: application/vnd.api+json"),
     S("content-type: application/octet-stream"),
     S("content-type: image/png"),
     S("content-type: text/plain"),
     S("x-a: 1")}

ResponseBodies ==
    {<<>>, S("{\"a\":1}"), S("{\"a\":1"), S(" [1, \"x\"]\r\n"), S("hi"),
     <<"a", "xFF">>, <<"xC3", "xA9">>}

RawResponses ==
    {<<>>, S("HTTP/1.1 200 OK")}
    \cup MessagesOver(StatusLines, {}, {<<>>, S("hi")})
    \cup MessagesOver({S("HTTP/1.1 200 OK")}, ResponseHeaderLines, ResponseBodies)

\* Concurrent calls ---------------------------------------------------------

\* The largest number of multipart encodes that are suspended at once.
MaxPending == 2

\* A form whose first and last entries are files.
TwoFileForm ==
    Form(<<File(S("f"), S("x.txt"), S("text/plain"), S("c")),
           Field(S("n"), S("v")),
           File(S("g"), <<>>, <<>>, <<"a", "xFF">>)>>)

FormConfigs ==
    {[method |-> Str(S("POST")), url |-> Str(S("/u")),
      headers |-> Obj(<< <<S("X-A"), Str(S("1"))>>, <<S("Content-Type"), Str(S("a/b"))>> >>),
      data |-> SampleForm],
     [method |-> Str(S("POST")), url |-> Str(S("/v")), headers |-> Obj(<<>>),
      data |-> TwoFileForm],
     [method |-> Undefined, url |-> Undefined, headers |-> Undefined,
      data |-> AccentForm]}

\* The calls made while multipart encodes are suspended.
AsyncConfigs ==
    {[method |-> Str(S("POST")), url |-> Str(S("/u")), headers |-> Obj(<<>>),
      data |-> Obj(<< <<S("a"), Num(1)>> >>)]}

\* The requests encoded in the life of a converter.
LifecycleConfigs == FormConfigs \cup AsyncConfigs

AsyncResponses ==
    {[status |-> Num(200), statusText |-> Str(S("OK")),
      headers |-> Obj(<< <<S("X-A"), Str(S("1"))>> >>), data |-> Obj(<< <<S("a"), Num(1)>> >>)],
     [status |-> Num(404), statusText |-> Str(S("Not Found")), headers |-> Obj(<<>>),
      data |-> Str(S("hi"))]}

AsyncRequests ==
    {S("GET /u HTTP/1.1\r\nHost: e.com\r\n\r\n"), S("GET /u")}

\* Header blocks ------------------------------------------------------------

\* Header lines that repeat a key, in the same and in another letter case.
HeaderBlockLines ==
    {S("Set-Cookie: session=abc123"),
     S("Set-Cookie: user=john"),
     S("set-cookie:  c=d:e "),
     S("X-A: 1"),
     S("__proto__: a"),
     S("nocolon"),
     S(":x")}

HeaderBlockRequests ==
    MessagesOver({S("GET /u HTTP/1.1")}, HeaderBlockLines, {<<>>, S("X-A: 2")})

HeaderBlockResponses ==
    MessagesOver({S("HTTP/1.1 200 OK")}, HeaderBlockLines, {<<>>, S("X-A: 2")})

\* Header lines with blanks around the key and around the value, and with
\* blanks and colons inside the value.
SpacedHeaderLines ==
    {S("X-B : 1"), S(" X-C: 2"), S("X-D:  a  b:c "), S("nocolon")}

SpacedHeaderRequests ==
    MessagesOver({S("GET /u HTTP/1.1")}, SpacedHeaderLines, {<<>>})

SpacedHeaderResponses ==
    MessagesOver({S("HTTP/1.1 200 OK")}, SpacedHeaderLines, {<<>>})

\* The messages the header parsers are run on.
HeaderRequests == HeaderBlockRequests \cup SpacedHeaderRequests

HeaderResponses == HeaderBlockResponses \cup SpacedHeaderResponses

\* Multipart bodies ---------------------------------------------------------

\* The most parts in a received multipart body.
MaxParts == 2

\* Parts as they stand between two delimiter lines: a text field, a file with
\* and without a content-type, a part without a name, a field whose content
\* holds the boundary text inside a longer line, and a second field named n.
MultipartParts ==
    {S("Content-Disposition: form-data; name=\"n\"\r\n\r\nv"),
     S("Content-Disposition: form-data; name=\"f\"; filename=\"x\"\r\nContent-Type: text/plain\r\n\r\nc"),
     S("Content-Disposition: form-data; name=\"f\"; filename=\"x\"\r\n\r\nc"),
     S("Content-Disposition: form-data\r\n\r\nz"),
     S("Content-Disposition: form-data; name=\"m\"\r\n\r\nx--b7y"),
     S("Content-Disposition: form-data; name=\"n\"\r\n\r\nw")}

\* Bodies of up to MaxParts parts under the boundary b7, closed by the
\* terminal marker.
MultipartBodies ==
    {Flatten([i \in 1..Len(ps) |-> S("--b7\r\n") \o ps[i] \o CRLF]) \o S("--b7--\r\n") :
        ps \in SeqsUpTo(MultipartParts, MaxParts)}

\* Requests that carry them, the content-type header in either letter case.
MultipartRequests ==
    {S("POST /u HTTP/1.1\r\n") \o ct \o S(" multipart/form-data; boundary=b7\r\n\r\n") \o b :
        ct \in {S("content-type:"), S("Content-Type:")},
        b \in MultipartBodies}

\* Responses with a JSON content-type, written in either letter case, with
\* and without parameters.
DispatchHeaderLines ==
    {S("content-type: application/json"),
     S("Content-Type: application/json"),
     S("content-type: application/json; charset=utf-8"),
     S("content-type: application/vnd.api+json"),
     S("Content-Type: application/vnd.api+json"),
     S("content-type: application/vnd.api+json; charset=utf-8")}

DispatchResponses ==
    MessagesOver({S("HTTP/1.1 200 OK")}, DispatchHeaderLines,
                 {S("{\"a\":1}"), S("[1, \"x\"]"), S("hi")})

\* The responses a converter with custom transforms is run on.
TransformedResponses ==
    {S("HTTP/1.1\r\n\r\n")}
    \cup MessagesOver({S("HTTP/1.1 200 OK")},
                      {S("content-type: application/json")},
                      {S("{\"a\":1}"), S("{\"a\":1"), S("hi")})

(***************************************************************************)
(* The converter in use                                                    *)
(*                                                                         *)
(* options     the options fixed by the constructor                        *)
(* pc          idle: no call made or the last result taken;                *)
(*             encoded: an encode has returned the bytes in `wire`;        *)
(*             done: a decode has returned                                 *)
(* op, input, outcome   the last call, its argument and what it returned   *)
(*             or threw                                                    *)
(* wire, source   the bytes of the last encode and the structured value    *)
(*             they were made from                                         *)
(* dispatched, calls, warns   in the last httpBytesToAxiosResponse: the    *)
(*             body after the content-type dispatch, the calls of the      *)
(*             custom transforms, the number of console.warn calls         *)
(***************************************************************************)

Init ==
    /\ options \in AllOptions
    /\ pc = "idle"
    /\ op = "none"
    /\ input = Undefined
    /\ outcome = Undefined
    /\ wire = Undefined
    /\ source = Undefined
    /\ dispatched = Undefined
    /\ calls = <<>>
    /\ warns = 0
    /\ pending = <<>>
    /\ settled = Undefined

\* await converter.axiosRequestToHttpBytes(config), with no other call made
\* before the promise settles and every attachment read successful;
\* `configs` is the set of configs the caller may pass.
AxiosRequestToHttpBytesOn(configs) ==
    /\ pc = "idle"
    /\ \E config \in configs :
          \E bytes \in {axiosRequestToHttpBytes(config, options)} :
              /\ op' = "axiosRequestToHttpBytes"
              /\ input' = config
              /\ outcome' = Ok(Bytes(bytes))
              /\ wire' = Bytes(bytes)
              /\ source' = config
    /\ pc' = "encoded"
    /\ UNCHANGED <<options, dispatched, calls, warns, pending, settled>>

AxiosRequestToHttpBytes == AxiosRequestToHttpBytesOn(RequestConfigs)

\* converter.axiosResponseToHttpBytes(response); `responses` is the set of
\* responses the caller may pass.
AxiosResponseToHttpBytesOn(responses) ==
    /\ pc = "idle"
    /\ \E response \in responses :
          \E bytes \in {axiosResponseToHttpBytes(response, options)} :
              /\ op' = "axiosResponseToHttpBytes"
              /\ input' = response
              /\ outcome' = Ok(Bytes(bytes))
              /\ wire' = Bytes(bytes)
              /\ source' = response
    /\ pc' = "encoded"
    /\ UNCHANGED <<options, dispatched, calls, warns, pending, settled>>

AxiosResponseToHttpBytes == AxiosResponseToHttpBytesOn(Responses)

\* converter.httpBytesToAxiosRequest(httpBytes), on bytes received from
\* elsewhere (`received` is the set of byte sequences that may arrive) or on
\* the bytes the converter has just encoded.
HttpBytesToAxiosRequestOn(received) ==
    /\ \E httpBytes \in (IF pc = "idle" THEN received
                         ELSE IF pc = "encoded" /\ op = "axiosRequestToHttpBytes"
                         THEN {wire.v} ELSE {}) :
          /\ input' = Bytes(httpBytes)
          /\ outcome' = httpBytesToAxiosRequest(httpBytes, options)
    /\ op' = "httpBytesToAxiosRequest"
    /\ pc' = "done"
    /\ UNCHANGED <<options, wire, source, dispatched, calls, warns, pending, settled>>

HttpBytesToAxiosRequest == HttpBytesToAxiosRequestOn(RawRequests)

\* converter.httpBytesToAxiosResponse(httpBytes), likewise.
HttpBytesToAxiosResponseOn(received) ==
    /\ \E httpBytes \in (IF pc = "idle" THEN received
                         ELSE IF pc = "encoded" /\ op = "axiosResponseToHttpBytes"
                         THEN {wire.v} ELSE {}) :
          \E r \in {ResponseDecode(httpBytes, options)} :
              /\ input' = Bytes(httpBytes)
              /\ outcome' = r.result
              /\ dispatched' = r.dispatched
              /\ calls' = r.calls
              /\ warns' = Cardinality({k \in 1..Len(r.calls) : r.calls[k].threw})
    /\ op' = "httpBytesToAxiosResponse"
    /\ pc' = "done"
    /\ UNCHANGED <<options, wire, source, pending, settled>>

\* The caller takes the result; the converter keeps nothing of the call.
HttpBytesToAxiosResponse == HttpBytesToAxiosResponseOn(RawResponses)

Return ==
    /\ pc = "done"
    /\ pc' = "idle"
    /\ op' = "none"
    /\ input' = Undefined
    /\ outcome' = Undefined
    /\ wire' = Undefined
    /\ source' = Undefined
    /\ dispatched' = Undefined
    /\ calls' = <<>>
    /\ warns' = 0
    /\ UNCHANGED <<options, pending, settled>>

\* The convenience functions of index.ts -------------------------------------

\* new HttpConverter() in place of new HttpConverter(options).
TemporaryConverterDefault(given, generated) ==
    constructor([maxBodySize |-> Undefined, preserveHeaderCase |-> Undefined,
                 multipartBoundary |-> Undefined, transformResponse |-> Undefined],
                generated)

\* const converter = new HttpConverter(options): the options of the temporary
\* converter, `generated` being what its generateBoundary() returns.
TemporaryConverter(given, generated) == constructor(given, generated)

\* The converter of the state may have been constructed with `given`.
ConstructedWith(given) == \E generated \in generateBoundary : options = constructor(given, generated)

\* httpBytesToAxiosRequest(httpBytes, options), where `options` are options
\* the converter of the state may have been constructed with.
IndexHttpBytesToAxiosRequest ==
    /\ pc = "idle"
    /\ \E given \in ConverterOptions, generated \in generateBoundary, httpBytes \in AsyncRequests :
          /\ ConstructedWith(given)
          /\ input' = [arg |-> Bytes(httpBytes), options |-> given]
          /\ outcome' = httpBytesToAxiosRequest(httpBytes, TemporaryConverter(given, generated))
    /\ op' = "index.httpBytesToAxiosRequest"
    /\ pc' = "done"
    /\ UNCHANGED <<options, wire, source, dispatched, calls, warns, pending, settled>>

\* await axiosRequestToHttpBytes(config, options), with every attachment read
\* successful.
IndexAxiosRequestToHttpBytes ==
    /\ pc = "idle"
    /\ \E given \in ConverterOptions, generated \in generateBoundary,
          config \in FormConfigs \cup AsyncConfigs :
          /\ ConstructedWith(given)
          /\ input' = [arg |-> config, options |-> given]
          /\ outcome' = Ok(Bytes(axiosRequestToHttpBytes(config,
                                     TemporaryConverter(given, generated))))
    /\ op' = "index.axiosRequestToHttpBytes"
    /\ pc' = "done"
    /\ UNCHANGED <<options, wire, source, dispatched, calls, warns, pending, settled>>

\* httpBytesToAxiosResponse(httpBytes, options).
IndexHttpBytesToAxiosResponse ==
    /\ pc = "idle"
    /\ \E given \in ConverterOptions, generated \in generateBoundary,
          httpBytes \in TransformedResponses :
          /\ ConstructedWith(given)
          /\ \E r \in {ResponseDecode(httpBytes, TemporaryConverter(given, generated))} :
                /\ input' = [arg |-> Bytes(httpBytes), options |-> given]
                /\ outcome' = r.result
                /\ dispatched' = r.dispatched
                /\ calls' = r.calls
                /\ warns' = Cardinality({k \in 1..Len(r.calls) : r.calls[k].threw})
    /\ op' = "index.httpBytesToAxiosResponse"
    /\ pc' = "done"
    /\ UNCHANGED <<options, wire, source, pending, settled>>

\* axiosResponseToHttpBytes(response, options).
IndexAxiosResponseToHttpBytes ==
    /\ pc = "idle"
    /\ \E given \in ConverterOptions, generated \in generateBoundary,
          response \in AsyncResponses :
          /\ ConstructedWith(given)
          /\ input' = [arg |-> response, options |-> given]
          /\ outcome' = Ok(Bytes(axiosResponseToHttpBytes(response,
                                     TemporaryConverter(given, generated))))
    /\ op' = "index.axiosResponseToHttpBytes"
    /\ pc' = "done"
    /\ UNCHANGED <<options, wire, source, dispatched, calls, warns, pending, settled>>

\* The multipart encodes that run concurrently ---------------------------------

\* The `parts` array the encode in pending[k] appends to: a local of its own
\* call of buildMultipartBody.
PartsOfLatestCall(frames, k) == frames[Len(frames)].parts

PartsOf(frames, k) == frames[k].parts

\* pending without its k-th frame.
Without(frames, k) == SubSeq(frames, 1, k - 1) \o SubSeq(frames, k + 1, Len(frames))

\* converter.axiosRequestToHttpBytes(config) is called with a FormData and
\* runs up to its first await; the promise it returns is pending.
BeginMultipartEncode ==
    /\ Len(pending) < MaxPending
    /\ \E config \in FormConfigs :
          pending' = Append(pending, BeginMultipart(config, options))
    /\ UNCHANGED <<options, pc, op, input, outcome, wire, source, dispatched, calls, warns,
                   settled>>

\* readBlobAsArrayBuffer resolves for a suspended encode, which runs on to
\* its next await.
AttachmentRead ==
    /\ \E k \in 1..Len(pending) :
          /\ pending[k].next <= Len(pending[k].config.data.v)
          /\ pending' =
                [pending EXCEPT ![k] =
                    ResumeMultipart(pending[k], PartsOf(pending, k),
                        readBlobAsArrayBuffer(pending[k].config.data.v[pending[k].next]))]
    /\ UNCHANGED <<options, pc, op, input, outcome, wire, source, dispatched, calls, warns,
                   settled>>

\* readBlobAsArrayBuffer rejects (reader.onerror, or blob.arrayBuffer()
\* rejects): the await in buildMultipartBody throws, nothing catches it, and
\* the promise of axiosRequestToHttpBytes rejects with the same Error.
AttachmentReadFails ==
    /\ \E k \in 1..Len(pending) :
          /\ pending[k].next <= Len(pending[k].config.data.v)
          /\ settled' = [config |-> pending[k].config, outcome |-> ThrowError]
          /\ pending' = Without(pending, k)
    /\ UNCHANGED <<options, pc, op, input, outcome, wire, source, dispatched, calls, warns>>

\* buildMultipartBody has returned to a suspended encode, whose promise
\* resolves to the combined bytes.
MultipartEncodeReturns ==
    /\ \E k \in 1..Len(pending) :
          /\ pending[k].next > Len(pending[k].config.data.v)
          /\ settled' = [config |-> pending[k].config,
                         outcome |-> Ok(Bytes(FinishMultipart(pending[k],
                                                             PartsOf(pending, k))))]
          /\ pending' = Without(pending, k)
    /\ UNCHANGED <<options, pc, op, input, outcome, wire, source, dispatched, calls, warns>>

Next ==
    \/ AxiosRequestToHttpBytes
    \/ HttpBytesToAxiosRequest
    \/ AxiosResponseToHttpBytes
    \/ HttpBytesToAxiosResponse
    \/ Return

Spec == Init /\ [][Next]_vars

\* A converter constructed without maxBodySize and without custom transforms,
\* with a boundary or without (one of the boundaries it may then generate).
InitPlain ==
    /\ Init
    /\ options.maxBodySize = Undefined
    /\ options.transformResponse = Undefined
    /\ options.multipartBoundary \in {S("b7"), S("----WebKitFormBoundaryk3")}

\* The request codec alone.
NextRequest ==
    \/ AxiosRequestToHttpBytes
    \/ HttpBytesToAxiosRequest
    \/ Return

SpecRequest == InitPlain /\ [][NextRequest]_vars

\* The response codec alone, on a converter without custom transforms.
NextResponse ==
    \/ AxiosResponseToHttpBytes
    \/ HttpBytesToAxiosResponse
    \/ Return

SpecResponse == InitPlain /\ [][NextResponse]_vars

\* The response decoder of converters with every list of custom transforms.
NextTransforms ==
    \/ HttpBytesToAxiosResponseOn(TransformedResponses)
    \/ Return

SpecTransforms == Init /\ [][NextTransforms]_vars

\* Converters constructed with every combination of options, among them a
\* list of custom transforms.
InitLifecycle ==
    /\ Init
    /\ options.transformResponse \in {Undefined} \cup {Arr(<<f>>) : f \in Transforms}

\* Any sequence of calls of the four operations, multipart encodes among them.
NextLifecycle ==
    \/ AxiosRequestToHttpBytesOn(LifecycleConfigs)
    \/ AxiosResponseToHttpBytesOn(AsyncResponses)
    \/ HttpBytesToAxiosRequestOn(AsyncRequests)
    \/ HttpBytesToAxiosResponseOn(TransformedResponses)
    \/ Return

SpecLifecycle == InitLifecycle /\ [][NextLifecycle]_vars

\* The convenience functions, called with the options a converter was
\* constructed with.
NextIndex ==
    \/ IndexHttpBytesToAxiosRequest
    \/ IndexAxiosRequestToHttpBytes
    \/ IndexHttpBytesToAxiosResponse
    \/ IndexAxiosResponseToHttpBytes
    \/ Return

SpecIndex == InitLifecycle /\ [][NextIndex]_vars

\* Multipart encodes suspended at their awaits while other calls are made and
\* return.
NextAsync ==
    \/ BeginMultipartEncode
    \/ AttachmentRead
    \/ AttachmentReadFails
    \/ MultipartEncodeReturns
    \/ AxiosRequestToHttpBytesOn(AsyncConfigs)
    \/ HttpBytesToAxiosRequestOn(AsyncRequests)
    \/ Return

SpecAsync == InitPlain /\ [][NextAsync]_vars

\* The four operations of a converter without custom transforms; the decoders
\* run on what the encoders wrote and on messages whose header block repeats
\* keys.
NextCodec ==
    \/ AxiosRequestToHttpBytesOn(CodecConfigs)
    \/ AxiosResponseToHttpBytes
    \/ HttpBytesToAxiosRequestOn(HeaderBlockRequests)
    \/ HttpBytesToAxiosResponseOn(HeaderBlockResponses)
    \/ Return

SpecCodec == InitPlain /\ [][NextCodec]_vars

\* The two decoders on messages whose header block repeats keys or holds
\* blanks around keys and values.
NextHeaders ==
    \/ HttpBytesToAxiosRequestOn(HeaderRequests)
    \/ HttpBytesToAxiosResponseOn(HeaderResponses)
    \/ Return

SpecHeaders == InitPlain /\ [][NextHeaders]_vars

\* The request decoder on multipart bodies.
NextMultipart ==
    \/ HttpBytesToAxiosRequestOn(MultipartRequests)
    \/ Return

SpecMultipart == InitPlain /\ [][NextMultipart]_vars

\* The two decoders on messages whose decoding is driven by the content-type.
NextDispatch ==
    \/ HttpBytesToAxiosRequestOn(MultipartRequests)
    \/ HttpBytesToAxiosResponseOn(DispatchResponses)
    \/ Return

SpecDispatch == InitPlain /\ [][NextDispatch]_vars

(***************************************************************************)
(* Properties                                                              *)
(***************************************************************************)

\* What the properties read off the raw input, computed on the bytes and
\* independently of the parsers above.

HasCRLF(b) == \E i \in 1..(Len(b) - 1) : b[i] = "\r" /\ b[i + 1] = "\n"

\* The position of the first CRLF (when there is one).
FirstCRLF(b) ==
    CHOOSE i \in 1..(Len(b) - 1) :
        /\ b[i] = "\r" /\ b[i + 1] = "\n"
        /\ \A j \in 1..(i - 1) : ~(b[j] = "\r" /\ b[j + 1] = "\n")

\* The bytes of the start line.
StartLineOf(b) == SubSeq(b, 1, FirstCRLF(b) - 1)

\* The number of space-separated tokens of the start line.
StartLineTokens(b) == 1 + Cardinality({j \in 1..Len(StartLineOf(b)) : b[j] = " "})

RequestDecoded == pc = "done" /\ op = "httpBytesToAxiosRequest"

ResponseDecoded == pc = "done" /\ op = "httpBytesToAxiosResponse"

\* The decode ran on the bytes this converter encoded from `source`.
RoundTrip == source # Undefined

JsonTypes == {"null", "bool", "num", "str", "arr", "obj"}

\* The key under which decode returns a header the caller named `name`.
DecodedKey(name) == IF options.preserveHeaderCase THEN name ELSE ToLowerCase(name)

\* ---------------------------------------------------------------------------
NoSpaceOrBreak(str) == \A i \in 1..Len(str) : ~IsSpace(str[i])

\* A request config that names a request: method and url are non-empty
\* strings without white space, and the headers are strings without
\* surrounding white space or line breaks, under non-empty names without
\* colon or line break that stay distinct when lowercased.
IsRequestConfig(config) ==
    /\ config.method.t = "str" /\ Len(config.method.v) > 0 /\ NoSpaceOrBreak(config.method.v)
    /\ config.url.t = "str" /\ Len(config.url.v) > 0 /\ NoSpaceOrBreak(config.url.v)
    /\ config.headers.t = "obj"
    /\ \A i \in 1..Len(config.headers.v) :
          /\ Len(config.headers.v[i][1]) > 0
          /\ \A k \in 1..Len(config.headers.v[i][1]) :
                config.headers.v[i][1][k] \notin {":", "\r", "\n"}
          /\ config.headers.v[i][2].t = "str"
          /\ Trim(config.headers.v[i][2].v) = config.headers.v[i][2].v
          /\ \A k \in 1..Len(config.headers.v[i][2].v) :
                config.headers.v[i][2].v[k] \notin {"\r", "\n"}
          /\ \A j \in 1..Len(config.headers.v) :
                ToLowerCase(config.headers.v[j][1]) = ToLowerCase(config.headers.v[i][1])
                    => j = i

\* C1: request round trip.  For every such request config whose data is
\* JSON-serializable, decoding the encoded request yields the method
\* (compared case-insensitively), the url, every caller-supplied header
\* (under its name, lowercased unless preserveHeaderCase) with the caller's
\* value, and a body whose UTF-8 decoding is JSON.stringify(data).
C1_RequestRoundTrip ==
    (/\ RequestDecoded /\ RoundTrip
     /\ IsRequestConfig(source)
     /\ source.data.t \in JsonTypes) =>
        /\ outcome.ok
        /\ ToLowerCase(outcome.value.method) = ToLowerCase(source.method.v)
        /\ outcome.value.url = source.url.v
        /\ \A i \in 1..Len(source.headers.v) :
              ObjGet(outcome.value.headers, DecodedKey(source.headers.v[i][1]))
                  = source.headers.v[i][2]
        /\ outcome.value.data.t = "bytes"
        /\ TextDecode(outcome.value.data.v) = JsonStringify(source.data)

\* ---------------------------------------------------------------------------
\* C5: httpBytesToAxiosRequest throws INVALID_HTTP_FORMAT exactly when the
\* input holds no CRLF-terminated start line or its start line has fewer than
\* three space-separated tokens.
C5_InvalidRequestFormat ==
    RequestDecoded =>
        ((outcome = Throw("INVALID_HTTP_FORMAT"))
            <=> (~HasCRLF(input.v) \/ StartLineTokens(input.v) < 3))

C5_Witness ==
    /\ RequestDecoded
    /\ HasCRLF(input.v)
    /\ StartLineTokens(input.v) = 2
    /\ outcome = Throw("INVALID_HTTP_FORMAT")

\* ---------------------------------------------------------------------------
\* The body that the k-th custom transform is to receive: the value returned
\* by the latest of the first k - 1 calls that did not throw, or the
\* dispatched body when none returned.
KeptAfter(k) ==
    LET returned == {j \in 1..k : ~calls[j].threw}
    IN  IF returned = {} THEN dispatched
        ELSE calls[CHOOSE j \in returned : \A i \in returned : j >= i].ret

TransformsConfigured == options.transformResponse # Undefined

\* C9 (as stated): the configured transforms run after the dispatch, in order,
\* each once; the first receives the dispatched body and the headers, each
\* later one the value returned by the previous one, and the returned data is
\* the value returned by the last one.
C9_AsStated ==
    (ResponseDecoded /\ outcome.ok /\ TransformsConfigured) =>
        LET fns == options.transformResponse.v
        IN  /\ Len(calls) = Len(fns)
            /\ \A k \in 1..Len(calls) :
                  /\ calls[k].fn = fns[k]
                  /\ calls[k].headers = outcome.value.headers
                  /\ calls[k].data = IF k = 1 THEN dispatched ELSE calls[k - 1].ret
            /\ Len(calls) > 0 => outcome.value.data = calls[Len(calls)].ret

\* C9 (amended): the configured transforms run after the dispatch, in order,
\* each once; the first receives the dispatched body and the headers, each
\* later one receives the value returned by the latest earlier transform that
\* did not throw (the dispatched body when none returned), and the returned
\* data is that value after the last transform.
C9_TransformChain ==
    (ResponseDecoded /\ outcome.ok /\ TransformsConfigured) =>
        LET fns == options.transformResponse.v
        IN  /\ Len(calls) = Len(fns)
            /\ \A k \in 1..Len(calls) :
                  /\ calls[k].fn = fns[k]
                  /\ calls[k].headers = outcome.value.headers
                  /\ calls[k].data = KeptAfter(k - 1)
            /\ outcome.value.data = KeptAfter(Len(calls))

C9_Witness ==
    /\ ResponseDecoded /\ outcome.ok /\ TransformsConfigured
    /\ Len(calls) = 2
    /\ calls[1].fn = "wrap" /\ calls[2].fn = "ctype"
    /\ dispatched.t = "obj"
    /\ calls[2].data = Obj(<< <<S("w"), dispatched>> >>)
    /\ outcome.value.data = Str(S("application/json"))

\* C10: when a custom transform throws, the decode still returns a complete
\* response; the body from before that transform is what the next transform
\* receives (or what is returned, after the last), and every configured
\* transform is still called.
C10_TransformThrowKept ==
    (ResponseDecoded /\ TransformsConfigured /\ \E k \in 1..Len(calls) : calls[k].threw) =>
        /\ outcome.ok
        /\ DOMAIN outcome.value = {"data", "status", "statusText", "headers"}
        /\ Len(calls) = Len(options.transformResponse.v)
        /\ \A k \in 1..Len(calls) :
              calls[k].threw =>
                  IF k < Len(calls) THEN calls[k + 1].data = calls[k].data
                  ELSE outcome.value.data = calls[k].data

C10_Witness ==
    /\ ResponseDecoded /\ outcome.ok
    /\ Len(calls) = 2
    /\ calls[1].threw /\ ~calls[2].threw
    /\ calls[2].fn = "wrap"
    /\ calls[2].data = dispatched
    /\ warns = 1

\* ---------------------------------------------------------------------------
\* The header block and the body of a raw message, read off the input.

BlankLine == CRLF \o CRLF

HasHeaderEnd(b) == IndexOf(b, BlankLine) > 0

\* The header lines: the lines after the start line, up to the blank line.
HeaderLinesOf(b) ==
    LET head == IF HasHeaderEnd(b) THEN SubSeq(b, 1, IndexOf(b, BlankLine) - 1) ELSE b
    IN  SelectSeq(Tail(Split(head, CRLF)), LAMBDA l : Len(l) > 0)

\* The bytes after the blank line.
BodyOf(b) ==
    IF HasHeaderEnd(b) THEN SubSeq(b, IndexOf(b, BlankLine) + 4, Len(b)) ELSE <<>>

HeaderNameOf(line) == ToLowerCase(Trim(SubSeq(line, 1, IndexOf(line, <<":">>) - 1)))

HeaderValueOf(line) == Trim(SubSeq(line, IndexOf(line, <<":">>) + 1, Len(line)))

\* The values of the content-type header lines, whatever their letter case.
ContentTypesOf(b) ==
    LET isCT(l) == Includes(l, <<":">>) /\ HeaderNameOf(l) = S("content-type")
        ls == SelectSeq(HeaderLinesOf(b), isCT)
    IN  [i \in 1..Len(ls) |-> HeaderValueOf(ls[i])]

\* The message carries one content-type, and it satisfies P.
ContentTypeIs(b, P(_)) == Len(ContentTypesOf(b)) = 1 /\ P(ContentTypesOf(b)[1])

\* ---------------------------------------------------------------------------
\* A response whose statusText has no white space at its ends and whose
\* header names stay distinct when lowercased.
IsResponse(response) ==
    /\ Trim(response.statusText.v) = response.statusText.v
    /\ \A i, j \in 1..Len(response.headers.v) :
          ToLowerCase(response.headers.v[j][1]) = ToLowerCase(response.headers.v[i][1])
              => j = i

\* C2: response round trip.  For every such response, decoding the encoded
\* response returns the same status and the same statusText, and data that is
\* JSON-equal to the response's data whenever that is a plain value.
C2_ResponseRoundTrip ==
    (ResponseDecoded /\ RoundTrip /\ IsResponse(source)) =>
        /\ outcome.ok
        /\ Num(outcome.value.status) = source.status
        /\ Str(outcome.value.statusText) = source.statusText
        /\ source.data.t \in JsonTypes =>
              /\ outcome.value.data.t \in JsonTypes
              /\ JsonStringify(outcome.value.data) = JsonStringify(source.data)

\* ---------------------------------------------------------------------------
\* C3: multipart round trip.  Encoding a request whose data is a form of one
\* text field and one named file, then decoding the bytes, yields a form with the same field name and
\* value and a file entry with the same filename, content-type and bytes.
C3_MultipartRoundTrip ==
    (RequestDecoded /\ RoundTrip /\ IsRequestConfig(source) /\ source.data = SampleForm) =>
        /\ outcome.ok
        /\ outcome.value.data.t = "form"
        /\ \E i \in 1..Len(outcome.value.data.v) :
              LET e == outcome.value.data.v[i]
              IN  ~e.file /\ e.name = S("n") /\ e.value = S("v")
        /\ \E i \in 1..Len(outcome.value.data.v) :
              LET e == outcome.value.data.v[i]
              IN  /\ e.file /\ e.name = S("f") /\ e.filename = S("x.txt")
                  /\ e.type = S("text/plain") /\ e.data = S("c")

\* ---------------------------------------------------------------------------
\* C4: a request with a three-token start line, header lines that all hold a
\* colon, a blank line, and one content-type header that contains
\* multipart/form-data but no boundary= parameter makes
\* httpBytesToAxiosRequest throw INVALID_MULTIPART, with or without body bytes.
C4_MultipartNoBoundary ==
    LET declaresNoBoundary(ct) ==
            Includes(ct, S("multipart/form-data")) /\ ~Includes(ct, S("boundary="))
    IN  (/\ RequestDecoded
         /\ HasCRLF(input.v) /\ StartLineTokens(input.v) >= 3
         /\ HasHeaderEnd(input.v)
         /\ \A i \in 1..Len(HeaderLinesOf(input.v)) :
               IndexOf(HeaderLinesOf(input.v)[i], <<":">>) > 1
         /\ ContentTypeIs(input.v, declaresNoBoundary))
        => outcome = Throw("INVALID_MULTIPART")

\* ---------------------------------------------------------------------------
\* The status line read as: protocol token HTTP/<digit>.<digit>, white space,
\* one or more digits, white space, reason text.

IsProtocolToken(tok) ==
    /\ Len(tok) = 8
    /\ SubSeq(tok, 1, 5) = S("HTTP/")
    /\ IsDigit(tok[6]) /\ tok[7] = "." /\ IsDigit(tok[8])

\* The first position at or after i that holds no P-character (Len + 1 when
\* the run reaches the end of the line).
RunEnd(line, i, P(_)) ==
    IF \E k \in i..Len(line) : ~P(line[k])
    THEN CHOOSE k \in i..Len(line) : ~P(line[k]) /\ \A j \in i..(k - 1) : P(line[j])
    ELSE Len(line) + 1

NotSpace(c) == ~IsSpace(c)

\* The positions where the code, the gap after it and the reason start.
StatusLineShape(line) ==
    LET p == RunEnd(line, 1, NotSpace)
        q == RunEnd(line, p, IsSpace)
        r == RunEnd(line, q, IsDigit)
        t == RunEnd(line, r, IsSpace)
    IN  [proto |-> SubSeq(line, 1, p - 1),
         gap1 |-> q - p,
         code |-> SubSeq(line, q, r - 1),
         gap2 |-> t - r,
         reason |-> SubSeq(line, t, Len(line))]

\* The line has the form, with a reason that starts at a visible character.
StatusLineWellFormed(line) ==
    LET sh == StatusLineShape(line)
    IN  /\ IsProtocolToken(sh.proto)
        /\ sh.gap1 > 0 /\ Len(sh.code) > 0 /\ sh.gap2 > 0 /\ Len(sh.reason) > 0

\* The line has the form up to the code, but nothing except white space
\* follows the code: whether that white space is a reason is left open.
StatusLineBlankReason(line) ==
    LET sh == StatusLineShape(line)
    IN  /\ IsProtocolToken(sh.proto)
        /\ sh.gap1 > 0 /\ Len(sh.code) > 0 /\ sh.gap2 > 1 /\ Len(sh.reason) = 0

\* C6: httpBytesToAxiosResponse throws INVALID_HTTP_FORMAT whenever the status
\* line is not a protocol token, then a status code of one or more digits,
\* then reason text; when the line has that form, status is the integer value
\* of the digits and statusText is the whole remaining text.
C6_StatusLine ==
    (ResponseDecoded /\ HasCRLF(input.v)) =>
        LET line == StartLineOf(input.v)
        IN  /\ StatusLineWellFormed(line) =>
                  /\ outcome.ok
                  /\ outcome.value.status = ParseDigits(StatusLineShape(line).code)
                  /\ outcome.value.statusText = StatusLineShape(line).reason
            /\ (~StatusLineWellFormed(line) /\ ~StatusLineBlankReason(line)) =>
                  outcome = Throw("INVALID_HTTP_FORMAT")

\* ---------------------------------------------------------------------------
IsJsonType(ct) == ct = S("application/json") \/ MatchesPlusJson(ct)

\* C7: for a non-empty body whose content-type is application/json or matches
\* application/*+json, data is the parsed JSON value when the body is valid
\* JSON, and the raw body bytes when it is not; the decode does not throw.
C7_JsonDispatch ==
    (/\ ResponseDecoded
     /\ HasCRLF(input.v) /\ StatusLineWellFormed(StartLineOf(input.v))
     /\ Len(BodyOf(input.v)) > 0
     /\ ContentTypeIs(input.v, IsJsonType)) =>
        LET body == BodyOf(input.v)
            parsed == IF IsValidUtf8(body) THEN JsonParse(TextDecode(body)) ELSE JsonFail
        IN  /\ outcome.ok
            /\ outcome.value.data = IF parsed.ok THEN parsed.v ELSE Bytes(body)

\* ---------------------------------------------------------------------------
IsUnlistedType(ct) ==
    /\ ~Includes(ct, S("application/json")) /\ ~MatchesPlusJson(ct)
    /\ ~StartsWith(ct, S("text/"))
    /\ ~Includes(ct, S("application/x-www-form-urlencoded"))
    /\ ~Includes(ct, S("application/xml")) /\ ~Includes(ct, S("text/xml"))

\* C8: for content-type application/octet-stream and for every content type
\* outside the dispatch table, a non-empty body that is valid UTF-8 is
\* returned as the decoded string, and a body that is not valid UTF-8 is
\* returned as raw bytes equal to the body bytes of the input.
C8_BinaryDispatch ==
    (/\ ResponseDecoded
     /\ HasCRLF(input.v) /\ StatusLineWellFormed(StartLineOf(input.v))
     /\ Len(BodyOf(input.v)) > 0
     /\ ContentTypeIs(input.v, IsUnlistedType)) =>
        LET body == BodyOf(input.v)
        IN  /\ outcome.ok
            /\ outcome.value.data = IF IsValidUtf8(body) THEN Str(TextDecode(body))
                                    ELSE Bytes(body)

\* ---------------------------------------------------------------------------
\* The header lines of a raw message that the header block parser keeps: those
\* whose first colon is not their first character.
KeptHeaderLines(b) ==
    SelectSeq(HeaderLinesOf(b), LAMBDA l : IndexOf(l, <<":">>) > 1)

\* The key of a kept header line after case normalization.
NormalizedKeyOf(line) == DecodedKey(SubSeq(line, 1, IndexOf(line, <<":">>) - 1))

\* The header mapping a decode returned.
DecodedHeaders == outcome.value.headers

\* C11: header parsing is deterministic and last-wins.  The header mapping a
\* decode returns is a function of the header block alone: for every key
\* (after case normalization) that occurs on a header line it holds exactly
\* one entry, whose value is that of the last line with that key, and it
\* holds no other entry.
C11_HeadersLastWins ==
    (pc = "done" /\ outcome.ok) =>
        LET kept == KeptHeaderLines(input.v)
        IN  /\ \A j \in 1..Len(kept) :
                  Cardinality({i \in 1..Len(DecodedHeaders) :
                                  DecodedHeaders[i][1] = NormalizedKeyOf(kept[j])}) = 1
            /\ \A i \in 1..Len(DecodedHeaders) :
                  \E j \in 1..Len(kept) :
                      /\ NormalizedKeyOf(kept[j]) = DecodedHeaders[i][1]
                      /\ HeaderValueOf(kept[j]) = DecodedHeaders[i][2]
                      /\ \A k \in (j + 1)..Len(kept) :
                            NormalizedKeyOf(kept[k]) # DecodedHeaders[i][1]

\* ---------------------------------------------------------------------------
\* What an encode wrote, read off the bytes.

RequestEncoded == wire # Undefined /\ "method" \in DOMAIN source

ResponseEncoded == wire # Undefined /\ "status" \in DOMAIN source

\* The name of a header line as written: the text before its first colon.
RawNameOf(line) == SubSeq(line, 1, IndexOf(line, <<":">>) - 1)

\* The names of the header lines of a raw message, as written.
EmittedNames(b) == {RawNameOf(l) : l \in {HeaderLinesOf(b)[i] : i \in 1..Len(HeaderLinesOf(b))}}

\* The caller's headers, as a sequence of <<name, value>>.
CallerHeaders == IF source.headers.t = "obj" THEN source.headers.v ELSE <<>>

\* The request encoder leaves a caller's header out: its value is null or
\* undefined, or it is content-type on a request without body, or it is
\* content-type or content-length on a form-data request.
LeftOut(h) ==
    \/ h[2].t \in {"undefined", "null"}
    \/ ToLowerCase(h[1]) = S("content-type") /\ (source.data.t = "form" \/ ~Truthy(source.data))
    \/ ToLowerCase(h[1]) = S("content-length") /\ source.data.t = "form"

\* The caller's headers an encode emits.
EmittedHeaders ==
    IF RequestEncoded THEN SelectSeq(CallerHeaders, LAMBDA h : ~LeftOut(h)) ELSE CallerHeaders

\* The names of the headers the encoders add themselves.
AddedNames ==
    IF RequestEncoded THEN {S("content-type"), S("content-length")}
    ELSE {S("Content-Type"), S("Content-Length")}

\* The name a header keeps under the option: its original letter case with
\* preserveHeaderCase true, lowercase otherwise.
CaseOf(name) == IF options.preserveHeaderCase = TRUE THEN name ELSE ToLowerCase(name)

ContentLengthsOf(b) ==
    LET isCL(l) == Includes(l, <<":">>) /\ HeaderNameOf(l) = S("content-length")
        ls == SelectSeq(HeaderLinesOf(b), isCL)
    IN  [i \in 1..Len(ls) |-> HeaderValueOf(ls[i])]

\* The text is the decimal numeral of n.
IsNumeral(text, n) ==
    /\ Len(text) > 0
    /\ \A k \in 1..Len(text) : IsDigit(text[k])
    /\ (Len(text) > 1 => text[1] # "0")
    /\ ParseDigits(text) = n

FormEncoded == RequestEncoded /\ op = "axiosRequestToHttpBytes" /\ source.data.t = "form"

\* C13: a request with a form-data body is written with exactly one
\* content-type header, whose value is multipart/form-data; boundary=<the
\* converter's boundary>, and exactly one content-length header, whose value
\* is the number of bytes after the blank line, whatever content-type or
\* content-length headers the caller supplied.
C13_FormHeaders ==
    FormEncoded =>
        /\ ContentTypesOf(wire.v) =
              <<S("multipart/form-data; boundary=") \o options.multipartBoundary>>
        /\ Len(ContentLengthsOf(wire.v)) = 1
        /\ IsNumeral(ContentLengthsOf(wire.v)[1], Len(BodyOf(wire.v)))

\* A form with a text field of more bytes than characters has been encoded
\* for a caller who supplied a content-type and a content-length of their own.
C13_Witness ==
    /\ FormEncoded
    /\ source.data = AccentForm
    /\ \E i, j \in 1..Len(CallerHeaders) :
          /\ ToLowerCase(CallerHeaders[i][1]) = S("content-type")
          /\ ToLowerCase(CallerHeaders[j][1]) = S("content-length")

\* ---------------------------------------------------------------------------
\* The caller named a content-type header, in whatever letter case.
CallerHasContentType ==
    \E i \in 1..Len(CallerHeaders) : ToLowerCase(CallerHeaders[i][1]) = S("content-type")

\* The values of the content-type headers of the caller that are emitted.
CallerContentTypes ==
    LET hs == SelectSeq(EmittedHeaders,
                        LAMBDA h : ToLowerCase(h[1]) = S("content-type"))
    IN  [i \in 1..Len(hs) |-> Trim(ToStr(hs[i][2]))]

\* A request was encoded whose data is given and is neither form-data, a
\* byte sequence nor a string.
JsonRequestEncoded ==
    /\ RequestEncoded /\ op = "axiosRequestToHttpBytes"
    /\ source.data.t \notin {"form", "bytes", "str", "undefined"}

\* C14: a request whose data is neither form-data, a byte sequence nor a
\* string is written with the JSON text of the data as its body; a
\* content-type: application/json header is added exactly when the caller
\* named no content-type header in any letter case, and the output carries
\* at most one content-type header.
C14_JsonBody ==
    JsonRequestEncoded =>
        /\ BodyOf(wire.v) = TextEncode(JsonStringify(source.data))
        /\ ContentTypesOf(wire.v) =
              (IF CallerHasContentType THEN CallerContentTypes
               ELSE <<S("application/json")>>)
        /\ Len(ContentTypesOf(wire.v)) <= 1

\* ---------------------------------------------------------------------------
\* The values of the content-length headers of the caller that are emitted.
CallerContentLengths ==
    LET hs == SelectSeq(EmittedHeaders,
                        LAMBDA h : ToLowerCase(h[1]) = S("content-length"))
    IN  [i \in 1..Len(hs) |-> Trim(ToStr(hs[i][2]))]

\* An encode of a request or response whose data is not form-data returned.
PlainEncoded ==
    /\ wire # Undefined
    /\ op \in {"axiosRequestToHttpBytes", "axiosResponseToHttpBytes"}
    /\ source.data.t # "form"

\* C15: in both encoders, for data that is not form-data, a content-length
\* header the caller supplied is emitted with the caller's value and no
\* computed one is added; without one from the caller, a message with a body
\* carries exactly one content-length header, the number of bytes of the body.
C15_ContentLength ==
    PlainEncoded =>
        IF Len(CallerContentLengths) > 0
        THEN ContentLengthsOf(wire.v) = CallerContentLengths
        ELSE Len(BodyOf(wire.v)) > 0 =>
                /\ Len(ContentLengthsOf(wire.v)) = 1
                /\ IsNumeral(ContentLengthsOf(wire.v)[1], Len(BodyOf(wire.v)))

\* ---------------------------------------------------------------------------
\* The codes of ConversionError.
ErrorCodes ==
    {"INVALID_HTTP_FORMAT", "UNSUPPORTED_METHOD", "BODY_TOO_LARGE", "INVALID_MULTIPART",
     "INVALID_URL"}

\* The call whose promise settled last failed.
EncodeFailed == settled # Undefined /\ ~settled.outcome.ok

\* The synchronous call that returned last failed.
CallFailed == pc \in {"done", "encoded"} /\ ~outcome.ok

\* C16: every failure of a conversion, a failed attachment read during a
\* multipart encode included, reaches the caller as an error whose code is
\* one of the five codes of ConversionError, and carries no result.
C16_TypedErrors ==
    /\ CallFailed => outcome.code \in ErrorCodes /\ "value" \notin DOMAIN outcome
    /\ EncodeFailed =>
          settled.outcome.code \in ErrorCodes /\ "value" \notin DOMAIN settled.outcome

\* ---------------------------------------------------------------------------
\* The bytes s end with the bytes t.
EndsWith(s, t) == Len(s) >= Len(t) /\ SubSeq(s, Len(s) - Len(t) + 1, Len(s)) = t

\* The multipart request in b is written with boundary bd: its content-type
\* names bd, its body opens with the delimiter line of bd unless the form is
\* empty, and closes with the terminal line of bd.
UsesBoundary(b, bd) ==
    /\ ContentTypesOf(b) = <<S("multipart/form-data; boundary=") \o bd>>
    /\ EndsWith(BodyOf(b), S("--") \o bd \o S("--") \o CRLF)
    /\ \/ BodyOf(b) = S("--") \o bd \o S("--") \o CRLF
       \/ StartsWith(BodyOf(b), S("--") \o bd \o CRLF)

\* C17: through any sequence of decode and encode calls on one converter its
\* options stay what the constructor made them, and every multipart encode
\* is written with the boundary held in the options, supplied or generated.
C17_OptionsFixed ==
    /\ [](FormEncoded => UsesBoundary(wire.v, options.multipartBoundary))
    /\ [][options' = options]_vars

\* A converter constructed with maxBodySize and a custom transform and without
\* a boundary has encoded a form and decoded it again.
C17_Witness ==
    /\ pc = "done" /\ RoundTrip /\ RequestEncoded /\ source.data.t = "form"
    /\ UsesBoundary(wire.v, options.multipartBoundary)
    /\ options.multipartBoundary \in generateBoundary
    /\ options.maxBodySize = Num(2048)
    /\ options.transformResponse # Undefined

\* ---------------------------------------------------------------------------
\* C18: reentrancy.  Whatever calls are made and return while multipart
\* encodes are suspended at their attachment reads, every call returns what
\* it returns when it runs alone: a multipart encode whose reads succeed
\* resolves to the bytes of the uninterrupted encode of its config, and an
\* encode or a decode made in between returns the encoding or decoding of
\* its own argument.
C18_Reentrant ==
    /\ (settled # Undefined /\ settled.outcome.ok) =>
          settled.outcome = Ok(Bytes(axiosRequestToHttpBytes(settled.config, options)))
    /\ pc = "encoded" =>
          outcome = Ok(Bytes(axiosRequestToHttpBytes(input, options)))
    /\ RequestDecoded =>
          outcome = httpBytesToAxiosRequest(input.v, options)

\* The encode of a form with two attachments has resolved while another
\* encode of such a form waits for its second attachment, a third encode has
\* just begun, and a decode made in between has returned.
C18_Witness ==
    /\ settled # Undefined /\ settled.outcome.ok /\ settled.config.data = TwoFileForm
    /\ Len(pending) = 2
    /\ pending[1].config.data = TwoFileForm /\ pending[1].next = 3
    /\ pending[2].config.data = SampleForm
    /\ pc = "done"

\* ---------------------------------------------------------------------------
\* A convenience function has returned.
IndexReturned ==
    pc = "done" /\ op \in {"index.httpBytesToAxiosRequest", "index.axiosRequestToHttpBytes",
                            "index.httpBytesToAxiosResponse", "index.axiosResponseToHttpBytes"}

\* What the same-named method of a converter holding the options opts
\* returns for the argument of the convenience function.
MethodResult(opts) ==
    CASE op = "index.httpBytesToAxiosRequest" -> httpBytesToAxiosRequest(input.arg.v, opts)
      [] op = "index.axiosRequestToHttpBytes" -> Ok(Bytes(axiosRequestToHttpBytes(input.arg, opts)))
      [] op = "index.httpBytesToAxiosResponse" -> httpBytesToAxiosResponse(input.arg.v, opts)
      [] op = "index.axiosResponseToHttpBytes" -> Ok(Bytes(axiosResponseToHttpBytes(input.arg, opts)))

\* The call encodes a form without a boundary among the options.
GeneratesBoundary ==
    /\ op = "index.axiosRequestToHttpBytes"
    /\ input.arg.data.t = "form"
    /\ input.options.multipartBoundary = Undefined

\* C19 as stated: every convenience function returns what the same-named
\* method of a converter constructed with the same options returns.
C19_AsStated == IndexReturned => outcome = MethodResult(options)

\* C19: every convenience function returns what the same-named method of a
\* converter constructed with the same options returns, except that the
\* encoding of a form-data request without a multipartBoundary among the
\* options is written with the boundary generated for the temporary
\* converter of the call: it is what the method returns on a converter that
\* generated that boundary.
C19_SameAsMethod ==
    IndexReturned =>
        IF GeneratesBoundary
        THEN \E generated \in generateBoundary :
                outcome = MethodResult([options EXCEPT !.multipartBoundary = generated])
        ELSE outcome = MethodResult(options)

\* A form was encoded by the convenience function without a boundary among
\* the options, and is written with another boundary than the converter's.
C19_Witness ==
    /\ IndexReturned /\ GeneratesBoundary
    /\ input.options.preserveHeaderCase = Bool(TRUE)
    /\ outcome # MethodResult(options)

\* ---------------------------------------------------------------------------
\* The header line of a caller's header: <name>: <value>, the name in the
\* letter case the option asks for.
HeaderLineOf(h) == CaseOf(h[1]) \o S(": ") \o ToStr(h[2])

\* The header lines of b open with the lines of the headers hs, in order,
\* and go on only with lines the encoder adds itself.
OpensWithHeaders(b, hs) ==
    LET lines == HeaderLinesOf(b)
    IN  /\ Len(lines) >= Len(hs)
        /\ \A i \in 1..Len(hs) : lines[i] = HeaderLineOf(hs[i])
        /\ \A i \in (Len(hs) + 1)..Len(lines) : RawNameOf(lines[i]) \in AddedNames

RequestWritten == RequestEncoded /\ op = "axiosRequestToHttpBytes"

\* C20 as stated: for every body kind other than form-data, every header of
\* the caller is emitted once, in the order of the header mapping, as a line
\* <name>: <value>.
C20_AsStated ==
    (RequestWritten /\ source.data.t # "form") => OpensWithHeaders(wire.v, CallerHeaders)

\* C20: request encode emits the caller's headers once each, in the order of
\* the header mapping, as lines <name>: <value> terminated by CRLF, leaving
\* out the headers whose value is null or undefined, content-type when the
\* request has no body, and content-type and content-length when the body is
\* form-data; after them come only the content-type and content-length lines
\* the encoder computes.
C20_HeaderOrder ==
    RequestWritten => OpensWithHeaders(wire.v, EmittedHeaders)

\* A request with a body was encoded for a caller with two headers, one of
\* them with blanks around its value; both were emitted in the caller's order.
C20_Witness ==
    /\ RequestWritten
    /\ source.data.t = "obj"
    /\ Len(CallerHeaders) = 2
    /\ CallerHeaders[1][1] = S("X-B") /\ CallerHeaders[2][1] = S("X-A")
    /\ Len(EmittedHeaders) = 2
    /\ OpensWithHeaders(wire.v, EmittedHeaders)

\* ---------------------------------------------------------------------------
\* A multipart body read off the input line by line: a part opens at a line
\* equal to --<boundary>, its header lines run to the first empty line, and
\* its content is the lines from there to the next delimiter line, joined
\* again with CRLF.

\* The boundary= parameter of the content-type of the message b.
DeclaredBoundary(b) ==
    LET ct == ContentTypesOf(b)[1]
    IN  SubSeq(ct, IndexOf(ct, S("boundary=")) + 9, Len(ct))

IsDelimiter(line, bd) == line = S("--") \o bd \/ line = S("--") \o bd \o S("--")

Least(set) == CHOOSE i \in set : \A j \in set : i <= j

\* The n-th smallest member of a set of numbers.
Nth(set, n) == CHOOSE i \in set : Cardinality({j \in set : j < i}) = n - 1

\* The token key="..." of a content-disposition value, Undefined without one.
TokenOf(d, key) ==
    LET open == S(" ") \o key \o S("=\"")
        from == IndexOf(d, open)
        rest == SubSeq(d, from + Len(open), Len(d))
    IN  IF from = 0 \/ IndexOf(rest, <<"\"">>) = 0 THEN Undefined
        ELSE Str(SubSeq(rest, 1, IndexOf(rest, <<"\"">>) - 1))

\* The part that opens at line i of the body lines.
PartAt(lines, bd, i) ==
    LET later == {j \in (i + 1)..Len(lines) : IsDelimiter(lines[j], bd)}
        end == IF later = {} THEN Len(lines) + 1 ELSE Least(later)
        blanks == {j \in (i + 1)..(end - 1) : lines[j] = <<>>}
        blank == IF blanks = {} THEN end ELSE Least(blanks)
        header(name) ==
            LET hs == {j \in (i + 1)..(blank - 1) :
                          Includes(lines[j], <<":">>) /\ HeaderNameOf(lines[j]) = name}
            IN  IF hs = {} THEN <<>> ELSE HeaderValueOf(lines[Least(hs)])
    IN  [name |-> TokenOf(header(S("content-disposition")), S("name")),
         filename |-> TokenOf(header(S("content-disposition")), S("filename")),
         type |-> header(S("content-type")),
         content |-> Join(SubSeq(lines, blank + 1, end - 1), CRLF)]

\* The parts of the multipart body of the message b, in the order of the body.
ReceivedParts(b) ==
    LET lines == Split(BodyOf(b), CRLF)
        opens == {i \in 1..Len(lines) : lines[i] = S("--") \o DeclaredBoundary(b)}
    IN  [k \in 1..Cardinality(opens) |-> PartAt(lines, DeclaredBoundary(b), Nth(opens, k))]

\* The parts that have a name.
NamedParts(b) == SelectSeq(ReceivedParts(b), LAMBDA p : p.name # Undefined)

\* The form entry a named part stands for.
EntryOfPart(p) ==
    IF p.filename # Undefined
    THEN File(p.name.v, p.filename.v,
              IF p.type = <<>> THEN S("application/octet-stream") ELSE p.type, p.content)
    ELSE Field(p.name.v, p.content)

\* httpBytesToAxiosRequest has returned from a message with a blank line and
\* one content-type, multipart/form-data with a boundary.
MultipartReceived ==
    LET declaresBoundary(ct) ==
            Includes(ct, S("multipart/form-data")) /\ Includes(ct, S("boundary="))
    IN  RequestDecoded /\ HasHeaderEnd(input.v) /\ ContentTypeIs(input.v, declaresBoundary)

\* The entries of the decoded form.
DecodedEntries == outcome.value.data.v

\* C21: decoding a multipart body yields a form that holds, for every part
\* with name="n" and no filename, the field n with the part's content
\* exactly, for every part with name="f"; filename="x" a file entry f with
\* filename x, the part's content-type (application/octet-stream when it has
\* none) and the content's bytes, and nothing for a part without a name.
C21_MultipartDecode ==
    MultipartReceived =>
        /\ outcome.ok
        /\ outcome.value.data.t = "form"
        /\ \A k \in 1..Len(NamedParts(input.v)) :
              \E i \in 1..Len(DecodedEntries) :
                  DecodedEntries[i] = EntryOfPart(NamedParts(input.v)[k])
        /\ \A i \in 1..Len(DecodedEntries) :
              \E k \in 1..Len(NamedParts(input.v)) :
                  DecodedEntries[i] = EntryOfPart(NamedParts(input.v)[k])

\* ---------------------------------------------------------------------------
\* C22: only a line equal to --<boundary> or --<boundary>-- delimits a part:
\* a part whose content holds the text --<boundary> inside a longer line is
\* not split there, and the form holds its whole content as one entry.
C22_LineDelimiters ==
    MultipartReceived =>
        \A k \in 1..Len(NamedParts(input.v)) :
            Includes(NamedParts(input.v)[k].content, S("--") \o DeclaredBoundary(input.v)) =>
                /\ outcome.ok
                /\ outcome.value.data.t = "form"
                /\ \E i \in 1..Len(DecodedEntries) :
                      /\ DecodedEntries[i].name = NamedParts(input.v)[k].name.v
                      /\ ~DecodedEntries[i].file
                      /\ DecodedEntries[i].value = NamedParts(input.v)[k].content

\* ---------------------------------------------------------------------------
\* The positions at which the bytes t occur in the bytes s.
Occurrences(s, t) ==
    {i \in 1..(Len(s) - Len(t) + 1) : SubSeq(s, i, i + Len(t) - 1) = t}

\* A multipart encode has resolved to bytes.
MultipartWritten == settled # Undefined /\ settled.outcome.ok

WrittenBody == BodyOf(settled.outcome.value.v)

WrittenEntries == settled.config.data.v

\* The delimiter line that opens a part.
PartOpening == S("--") \o options.multipartBoundary \o CRLF

\* The terminal marker.
TerminalMarker == S("--") \o options.multipartBoundary \o S("--") \o CRLF

\* C23: the multipart writer emits one part per form entry, in the order of
\* the form, each beginning with --<boundary> CRLF followed by the
\* disposition of its entry, and the terminal marker --<boundary>-- CRLF once,
\* at the end; the content-length is the byte length of that body.  This
\* holds however the attachment reads of the suspended encodes complete.
C23_PartsInOrder ==
    MultipartWritten =>
        /\ Cardinality(Occurrences(WrittenBody, PartOpening)) = Len(WrittenEntries)
        /\ \A k \in 1..Len(WrittenEntries) :
              StartsWith(SubSeq(WrittenBody, Nth(Occurrences(WrittenBody, PartOpening), k),
                                Len(WrittenBody)),
                         PartOpening \o S("Content-Disposition: form-data; name=\"")
                         \o TextEncode(WrittenEntries[k].name) \o S("\""))
        /\ Len(WrittenEntries) > 0 => StartsWith(WrittenBody, PartOpening)
        /\ Occurrences(WrittenBody, TerminalMarker)
              = {Len(WrittenBody) - Len(TerminalMarker) + 1}
        /\ ContentLengthsOf(settled.outcome.value.v) = <<NatToString(Len(WrittenBody))>>

\* The encode of a form with two attachments has resolved, both reads done,
\* while an encode of the same form still waits for its first read.
C23_Witness ==
    /\ MultipartWritten
    /\ settled.config.data = TwoFileForm
    /\ Len(pending) = 1
    /\ pending[1].config.data = TwoFileForm /\ pending[1].next = 1
    /\ Cardinality(Occurrences(WrittenBody, PartOpening)) = 3

\* ---------------------------------------------------------------------------
\* The bytes of the k-th written part: from its opening line up to the
\* opening line of the next part, or up to the terminal marker.
WrittenPart(k) ==
    LET opens == Occurrences(WrittenBody, PartOpening)
        end == IF k < Cardinality(opens) THEN Nth(opens, k + 1)
               ELSE Len(WrittenBody) - Len(TerminalMarker) + 1
    IN  SubSeq(WrittenBody, Nth(opens, k), end - 1)

\* The header block of a file entry: its disposition with the key and the
\* file's name (blob for a Blob without one), its content-type
\* (application/octet-stream when the entry has none), and the blank line.
FileHeaderBlock(entry) ==
    S("Content-Disposition: form-data; name=\"") \o TextEncode(entry.name)
    \o S("\"; filename=\"")
    \o (IF entry.filename = <<>> THEN S("blob") ELSE TextEncode(entry.filename))
    \o S("\"") \o CRLF
    \o S("Content-Type: ")
    \o (IF entry.type = <<>> THEN S("application/octet-stream") ELSE entry.type) \o CRLF
    \o CRLF

\* C24: for every file-like entry the multipart writer emits, after the
\* opening line, the header block Content-Disposition: form-data;
\* name="<key>"; filename="<name>" CRLF Content-Type: <type, or
\* application/octet-stream> CRLF and a blank line, then the attachment's
\* bytes unchanged, then a CRLF before the next boundary line.
C24_FilePart ==
    MultipartWritten =>
        \A k \in 1..Len(WrittenEntries) :
            WrittenEntries[k].file =>
                WrittenPart(k) = PartOpening \o FileHeaderBlock(WrittenEntries[k])
                                 \o WrittenEntries[k].data \o CRLF

\* ---------------------------------------------------------------------------
\* A response was encoded whose data is an object or an array.
ObjectResponseEncoded ==
    /\ ResponseEncoded /\ op = "axiosResponseToHttpBytes"
    /\ source.data.t \in {"obj", "arr"}

\* The values of the caller's content-type headers, whatever their letter
\* case.
CallerContentTypeValues ==
    LET hs == SelectSeq(CallerHeaders, LAMBDA h : ToLowerCase(h[1]) = S("content-type"))
    IN  [i \in 1..Len(hs) |-> Trim(ToStr(hs[i][2]))]

\* C25: for an object body axiosResponseToHttpBytes adds content-type:
\* application/json only when the response headers hold no content-type key
\* in any letter case; a response that carries one content-type, in whatever
\* letter case, is written with exactly one content-type header, holding the
\* caller's value.
C25_ResponseContentType ==
    (ObjectResponseEncoded /\ Len(CallerContentTypeValues) <= 1) =>
        ContentTypesOf(wire.v) =
            (IF CallerHasContentType THEN CallerContentTypeValues
             ELSE <<S("application/json")>>)

\* ---------------------------------------------------------------------------
\* httpBytesToAxiosRequest has returned from a message with a start line of
\* three tokens or more and a blank line, none of whose content-type headers
\* names multipart/form-data.
PlainRequestReceived ==
    /\ RequestDecoded
    /\ HasCRLF(input.v) /\ StartLineTokens(input.v) >= 3
    /\ HasHeaderEnd(input.v)
    /\ \A i \in 1..Len(ContentTypesOf(input.v)) :
          ~Includes(ToLowerCase(ContentTypesOf(input.v)[i]), S("multipart/form-data"))

\* C26: for every request without a multipart content-type the body
\* returned by httpBytesToAxiosRequest is, byte for byte, the input after
\* the first blank line, whatever the byte values and whether or not the
\* body holds CRLF or blank lines itself.
C26_BodyBytes ==
    PlainRequestReceived =>
        /\ outcome.ok
        /\ outcome.value.data = Bytes(BodyOf(input.v))

\* ---------------------------------------------------------------------------
\* The message received carries exactly one content-type header.
OneContentType == HasHeaderEnd(input.v) /\ Len(ContentTypesOf(input.v)) = 1

\* The options of the converter, with preserveHeaderCase false.
LowercasingOptions == [options EXCEPT !.preserveHeaderCase = FALSE]

\* The body is JSON text.
IsJsonBody(body) == IsValidUtf8(body) /\ JsonParse(TextDecode(body)).ok

\* C27: the content-type that drives the decoding is looked up whatever its
\* letter case: whether or not preserveHeaderCase is set, a response with the
\* header line Content-Type: application/json and a JSON body is decoded to
\* the parsed value, a request with Content-Type: multipart/form-data;
\* boundary=b is decoded to a form, and the data of every message with one
\* content-type header is what a converter with preserveHeaderCase false
\* returns for it.
C27_ContentTypeAnyCase ==
    /\ (ResponseDecoded /\ OneContentType) =>
          /\ outcome.ok = httpBytesToAxiosResponse(input.v, LowercasingOptions).ok
          /\ outcome.ok =>
                outcome.value.data
                    = httpBytesToAxiosResponse(input.v, LowercasingOptions).value.data
          /\ (ContentTypesOf(input.v) = <<S("application/json")>>
              /\ IsJsonBody(BodyOf(input.v))) =>
                outcome.value.data = JsonParse(TextDecode(BodyOf(input.v))).v
    /\ (RequestDecoded /\ OneContentType) =>
          /\ outcome.ok = httpBytesToAxiosRequest(input.v, LowercasingOptions).ok
          /\ outcome.ok =>
                outcome.value.data
                    = httpBytesToAxiosRequest(input.v, LowercasingOptions).value.data
          /\ MultipartReceived => outcome.value.data.t = "form"

\* ---------------------------------------------------------------------------
\* A content-type value without its parameters.
MediaTypeOf(ct) ==
    Trim(IF Includes(ct, <<";">>) THEN SubSeq(ct, 1, IndexOf(ct, <<";">>) - 1) ELSE ct)

\* application/json or application/<x>+json.
IsJsonMediaType(mt) ==
    \/ mt = S("application/json")
    \/ StartsWith(mt, S("application/")) /\ EndsWith(mt, S("+json"))

\* C30: the JSON branch of the response dispatch does not depend on the
\* parameters of the content-type: for every non-empty body that is valid
\* JSON, a content-type application/json or application/<x>+json, with or
\* without parameters after it, yields the parsed JSON value.
C30_JsonWithParameters ==
    (/\ ResponseDecoded /\ OneContentType
     /\ Len(BodyOf(input.v)) > 0 /\ IsJsonBody(BodyOf(input.v))
     /\ IsJsonMediaType(MediaTypeOf(ContentTypesOf(input.v)[1]))) =>
        /\ outcome.ok
        /\ outcome.value.data = JsonParse(TextDecode(BodyOf(input.v))).v

\* ---------------------------------------------------------------------------
\* The header lines of b that contain a colon.
ColonLines(b) == SelectSeq(HeaderLinesOf(b), LAMBDA l : Includes(l, <<":">>))

\* The key of such a line: the text before the first colon without the
\* white space around it, in the letter case the option asks for.
TrimmedKeyOf(line) == DecodedKey(Trim(RawNameOf(line)))

\* C28: every header line with a colon is decoded to the key that is the
\* text before its first colon without surrounding white space (lowercased
\* unless preserveHeaderCase) and the value that is the text after that colon
\* without surrounding white space, inner white space and later colons kept;
\* a line without a colon yields no entry and no error.
C28_HeaderLine ==
    (pc = "done" /\ op \in {"httpBytesToAxiosRequest", "httpBytesToAxiosResponse"}
     /\ HasCRLF(input.v) /\ HasHeaderEnd(input.v)) =>
        LET lines == ColonLines(input.v)
        IN  /\ outcome.ok
            /\ \A j \in 1..Len(lines) :
                  (\A k \in 1..Len(lines) :
                      TrimmedKeyOf(lines[k]) = TrimmedKeyOf(lines[j]) => k = j) =>
                      \E i \in 1..Len(DecodedHeaders) :
                          /\ DecodedHeaders[i][1] = TrimmedKeyOf(lines[j])
                          /\ DecodedHeaders[i][2] = HeaderValueOf(lines[j])
            /\ \A i \in 1..Len(DecodedHeaders) :
                  \E j \in 1..Len(lines) : DecodedHeaders[i][1] = TrimmedKeyOf(lines[j])

\* ---------------------------------------------------------------------------
\* The name of a form entry and whether it is a file.
KindOf(entry) == <<entry.name, entry.file>>

\* C29: the form decoded from a multipart body keeps the order and the
\* multiplicity of the named parts: it holds one entry per named part, text
\* field or file, in the order of the parts in the body, and two parts with
\* the same field name both appear.
C29_PartOrder ==
    MultipartReceived =>
        /\ outcome.ok
        /\ outcome.value.data.t = "form"
        /\ [i \in 1..Len(DecodedEntries) |-> KindOf(DecodedEntries[i])]
              = [k \in 1..Len(NamedParts(input.v)) |->
                    KindOf(EntryOfPart(NamedParts(input.v)[k]))]

====
